---- MODULE Spec2Model ----
(***************************************************************************)
(* Churn pipeline (bronze -> silver -> gold) as a state machine.           *)
(*                                                                         *)
(* A table is [cols, dtype, rows]: the ordered column names, the pandas    *)
(* dtype of every column and the rows, each a function from column name to *)
(* cell.  A cell is a tagged record [k, v, f]:                             *)
(*   na      a missing value (NaN / NaT / None)                            *)
(*   str     a text that is neither a number nor a date                    *)
(*   numstr  the decimal text of the rational v, written "int" (100) or    *)
(*           "dec" (100.0)                                                 *)
(*   datestr the text of day number v in format f ("iso" YYYY-MM-DD,       *)
(*           "dmy" DD/MM/YYYY)                                             *)
(*   hash    the 64 hex digit SHA-256 digest of the text v                 *)
(*   num     a number, the rational v = <<numerator, denominator>>;        *)
(*           denominator 0 is +inf / -inf                                  *)
(*   date    a datetime64 value, day number v                              *)
(*   bool    a boolean                                                     *)
(*   cat     a value of a pandas Categorical, the label v                  *)
(* A CSV file holds text cells only (str, numstr, datestr, hash).          *)
(***************************************************************************)
EXTENDS Integers, Sequences, FiniteSets, TLC

VARIABLES pc, bronze, df, silver, gold, previo, corrida

vars == <<pc, bronze, df, silver, gold, previo, corrida>>

----------------------------------------------------------------------------
(* Bounds of the model *)

MaxRows == 3

MaxCorridas == 2

----------------------------------------------------------------------------
(* Configuration: src/src/configuracion.py *)

COLUMNAS_SENSIBLES == <<"full_name", "email", "phone", "home_address">>

SALT_HASHING == "proyecto_churn_2025_salt_secreto"

UMBRAL_GASTO_MINIMO == 0

UMBRAL_GASTO_MAXIMO == 15000

UMBRAL_ENVIOS_MAXIMO == 500

\* ESTRATEGIA_NULOS, in the insertion order of the dict.
ESTRATEGIA_NULOS ==
    << <<"phone", "MISSING">>,
       <<"monthly_spend", "mediana">>,
       <<"total_shipments", "mediana">>,
       <<"last_purchase_date", "ffill">>,
       <<"churn_label", "eliminar">> >>

----------------------------------------------------------------------------
(* Cells *)

NA == [k |-> "na", v |-> 0, f |-> ""]

Str(s) == [k |-> "str", v |-> s, f |-> ""]

NumStr(q, style) == [k |-> "numstr", v |-> q, f |-> style]

DateStr(d, fmt) == [k |-> "datestr", v |-> d, f |-> fmt]

Hash(s) == [k |-> "hash", v |-> s, f |-> ""]

Num(q) == [k |-> "num", v |-> q, f |-> ""]

Date(d) == [k |-> "date", v |-> d, f |-> ""]

Bool(b) == [k |-> "bool", v |-> b, f |-> ""]

Cat(label) == [k |-> "cat", v |-> label, f |-> ""]

IsNA(c) == c.k = "na"

----------------------------------------------------------------------------
(* Rationals <<n, d>>, d >= 0, in lowest terms *)

RECURSIVE Gcd(_, _)
Gcd(a, b) == IF b = 0 THEN a ELSE Gcd(b, a % b)

Abs(n) == IF n < 0 THEN -n ELSE n

Sign(n) == IF n < 0 THEN -1 ELSE IF n > 0 THEN 1 ELSE 0

Rat(n, d) ==
    IF d = 0 THEN <<Sign(n), 0>>
    ELSE LET s == IF d < 0 THEN -1 ELSE 1
             g == Gcd(Abs(n), Abs(d))
         IN <<(s * n) \div g, (s * d) \div g>>

Entero(n) == <<n, 1>>

\* <<0, 0>> is NaN, <<1, 0>> is +inf and <<-1, 0>> is -inf, as in IEEE 754.
NaN == <<0, 0>>

\* Comparisons with NaN are False.
RLess(p, q) ==
    IF p = NaN \/ q = NaN THEN FALSE
    ELSE IF p[2] = 0 /\ q[2] = 0 THEN p[1] < q[1]
    ELSE p[1] * q[2] < q[1] * p[2]

RLeq(p, q) == p # NaN /\ q # NaN /\ ~RLess(q, p)

RAdd(p, q) ==
    IF p[2] = 0 /\ q[2] = 0
    THEN (IF p[1] = q[1] THEN p ELSE NaN)
    ELSE Rat(p[1] * q[2] + q[1] * p[2], p[2] * q[2])

RNeg(p) == <<-p[1], p[2]>>

RSub(p, q) == RAdd(p, RNeg(q))

RMul(p, q) == Rat(p[1] * q[1], p[2] * q[2])

RDiv(p, q) == IF q[1] < 0 THEN Rat(-p[1] * q[2], -p[2] * q[1])
              ELSE Rat(p[1] * q[2], p[2] * q[1])

RHalf(p) == Rat(p[1], 2 * p[2])

Inf == <<1, 0>>

\* The float of a numeric cell and the cell of a float: NaN is the missing value.
Q(c) == IF IsNA(c) THEN NaN ELSE c.v

NumCell(q) == IF q = NaN THEN NA ELSE Num(q)

----------------------------------------------------------------------------
(* Tables *)

Range(s) == {s[i] : i \in 1..Len(s)}

HasCol(t, c) == c \in Range(t.cols)

Column(t, c) == [i \in 1..Len(t.rows) |-> t.rows[i][c]]

\* df[c] = vals (vals indexed like the rows); a new column is appended.
SetColumn(t, c, dt, vals) ==
    [cols  |-> IF HasCol(t, c) THEN t.cols ELSE Append(t.cols, c),
     dtype |-> [x \in Range(t.cols) \cup {c} |-> IF x = c THEN dt ELSE t.dtype[x]],
     rows  |-> [i \in 1..Len(t.rows) |->
                  [x \in Range(t.cols) \cup {c} |->
                      IF x = c THEN vals[i] ELSE t.rows[i][x]]]]

\* One column to assign: its name, its dtype and its values.
Col(c, dt, vals) == [c |-> c, dt |-> dt, vals |-> vals]

\* df[c1] = vals1; ...; df[cn] = valsn: new columns are appended in order.
AddColumns(t, nuevas) ==
    LET nombres == [j \in 1..Len(nuevas) |-> nuevas[j].c]
        pos(x)  == CHOOSE j \in 1..Len(nuevas) : nuevas[j].c = x
        todas   == Range(t.cols) \cup Range(nombres)
    IN [cols  |-> t.cols \o SelectSeq(nombres, LAMBDA c : ~HasCol(t, c)),
        dtype |-> [x \in todas |->
                      IF x \in Range(nombres) THEN nuevas[pos(x)].dt ELSE t.dtype[x]],
        rows  |-> [i \in 1..Len(t.rows) |->
                     [x \in todas |->
                         IF x \in Range(nombres) THEN nuevas[pos(x)].vals[i]
                         ELSE t.rows[i][x]]]]

\* df.drop(columns=cs)
DropColumns(t, cs) ==
    LET keep == SelectSeq(t.cols, LAMBDA c : c \notin cs)
    IN [cols  |-> keep,
        dtype |-> [x \in Range(keep) |-> t.dtype[x]],
        rows  |-> [i \in 1..Len(t.rows) |-> [x \in Range(keep) |-> t.rows[i][x]]]]

\* The rows at the positions idx (a sequence of row numbers), in that order.
TakeRows(t, idx) == [t EXCEPT !.rows = [i \in 1..Len(idx) |-> t.rows[idx[i]]]]

\* The row numbers 1..n as a sequence.
Indices(n) == [i \in 1..n |-> i]

CountNA(t, c) == Cardinality({i \in 1..Len(t.rows) : IsNA(t.rows[i][c])})

----------------------------------------------------------------------------
(* Paso 1: pd.read_csv(ruta_bronze, dtype=str) and the quoting repair *)

\* pandas' default na_values: texts that read_csv turns into NaN.
NaTokens ==
    {"", "#N/A", "#N/A N/A", "#NA", "-1.#IND", "-1.#QNAN", "-NaN", "-nan",
     "1.#IND", "1.#QNAN", "<NA>", "N/A", "NA", "NULL", "NaN", "None", "n/a",
     "nan", "null"}

\* One field read as text: a default NA token becomes NaN.
ReadCell(tok) == IF tok.k = "str" /\ tok.v \in NaTokens THEN NA ELSE tok

RECURSIVE JoinCols(_)
JoinCols(cs) ==
    IF Len(cs) = 0 THEN ""
    ELSE IF Len(cs) = 1 THEN cs[1]
    ELSE cs[1] \o "," \o JoinCols(Tail(cs))

\* The quoting of a file says how its lines are written: "none" a,b;
\* "field" "a","b"; "line" "a,b" (the whole line in one pair of quotes);
\* "escaped" """a"",""b""" (the line in one pair of quotes, the quotes of
\* its fields doubled: one field whose text is "a","b").

\* n quote characters.
RECURSIVE Deco(_)
Deco(n) == IF n = 0 THEN "" ELSE "\"" \o Deco(n - 1)

\* The text c between pre and post quote characters.
Decorado(pre, c, post) == Deco(pre) \o c \o Deco(post)

\* Default parse: a quoted line is one field, so the table has one column;
\* quoted fields lose their quotes.
ReadCsvStr(file) ==
    IF file.quoting \in {"line", "escaped"} /\ Len(file.cols) > 1
    THEN LET c == IF file.quoting = "line" THEN JoinCols(file.cols)
                  ELSE JoinCols([j \in 1..Len(file.cols) |->
                                    Decorado(1, file.cols[j], 1)])
         IN [cols  |-> <<c>>,
             dtype |-> [x \in {c} |-> "object"],
             rows  |-> [i \in 1..Len(file.rows) |->
                          [x \in {c} |->
                              [k |-> "line", v |-> file.rows[i],
                               f |-> IF file.quoting = "line" THEN "" ELSE "escaped"]]]]
    ELSE [cols  |-> file.cols,
          dtype |-> [x \in Range(file.cols) |-> "object"],
          rows  |-> [i \in 1..Len(file.rows) |->
                       [x \in Range(file.cols) |-> ReadCell(file.rows[i][x])]]]

\* The quote characters quoting=3 leaves before and after field j of a line.
PreQ(file, j) ==
    CASE file.quoting = "none"    -> 0
      [] file.quoting = "field"   -> 1
      [] file.quoting = "line"    -> IF j = 1 THEN 1 ELSE 0
      [] file.quoting = "escaped" -> IF j = 1 THEN 3 ELSE 2

PostQ(file, j) ==
    CASE file.quoting = "none"    -> 0
      [] file.quoting = "field"   -> 1
      [] file.quoting = "line"    -> IF j = Len(file.cols) THEN 1 ELSE 0
      [] file.quoting = "escaped" -> IF j = Len(file.cols) THEN 3 ELSE 2

\* quoting=3 (QUOTE_NONE): lines are split at every comma and the quote
\* characters stay in the fields, headers included; a field with a quote
\* character matches no NA token.
ReadCsvNoQuote(file) ==
    LET n == Len(file.cols)
        header == [j \in 1..n |-> Decorado(PreQ(file, j), file.cols[j], PostQ(file, j))]
        campo(h) == CHOOSE j \in 1..n : header[j] = h
    IN [cols  |-> header,
        dtype |-> [h \in Range(header) |-> "object"],
        rows  |-> [i \in 1..Len(file.rows) |->
                     [h \in Range(header) |->
                         IF PreQ(file, campo(h)) + PostQ(file, campo(h)) > 0
                         THEN [k |-> "quoted", v |-> file.rows[i][file.cols[campo(h)]],
                               f |-> ""]
                         ELSE ReadCell(file.rows[i][file.cols[campo(h)]])]]]

\* The column names of the raw files.
NombresColumna ==
    {"customer_id", "full_name", "email", "phone", "home_address", "signup_date",
     "last_purchase_date", "monthly_spend", "total_shipments", "churn_label",
     "id", "spend"}

\* columns.str.replace('"', ''): the name without its quote characters.
SinComillas(h) ==
    CHOOSE c \in NombresColumna : \E pre, post \in 0..3 : h = Decorado(pre, c, post)

\* Mutant: the quote characters stay in the values.
StripQuotes_Nada(c) == c

\* df[col].str.replace('"', ''): NaN stays NaN.
StripQuotes(c) == IF c.k = "quoted" THEN c.v ELSE c

\* The repair of lines 86-93: the re-parse without its quote characters.
Reparado(temp) ==
    LET limpias == [j \in 1..Len(temp.cols) |-> SinComillas(temp.cols[j])]
        sucia(c) == temp.cols[CHOOSE j \in 1..Len(temp.cols) : limpias[j] = c]
    IN [cols  |-> limpias,
        dtype |-> [c \in Range(limpias) |-> "object"],
        rows  |-> [i \in 1..Len(temp.rows) |->
                     [c \in Range(limpias) |-> StripQuotes(temp.rows[i][sucia(c)])]]]

cargar_bronze(file) ==
    LET first == ReadCsvStr(file)
    IN IF Len(first.cols) = 1
       THEN LET temp == ReadCsvNoQuote(file)
            IN IF Len(temp.cols) > 1 THEN Reparado(temp) ELSE first
       ELSE first

\* cargar_datos_bronze of src/src/ingestion/cargar_bronze.py: the raw file
\* read as text, repaired when the whole line came out as one column.
cargar_datos_bronze(file) ==
    LET df0 == ReadCsvStr(file)
        condicion_1_columna == Len(df0.cols) = 1
        df_temp == ReadCsvNoQuote(file)
        columns == [j \in 1..Len(df_temp.cols) |-> SinComillas(df_temp.cols[j])]
        original(col) == df_temp.cols[CHOOSE j \in 1..Len(columns) : columns[j] = col]
    IN IF condicion_1_columna /\ Len(df_temp.cols) > 1
       THEN [cols  |-> columns,
             dtype |-> [col \in Range(columns) |-> "object"],
             rows  |-> [i \in 1..Len(df_temp.rows) |->
                          [col \in Range(columns) |->
                              StripQuotes(df_temp.rows[i][original(col)])]]]
       ELSE df0

----------------------------------------------------------------------------
(* pd.to_datetime(errors='coerce') and pd.to_numeric(errors='coerce') *)

ToDatetime(c) ==
    CASE c.k = "datestr" -> Date(c.v)
      [] c.k = "date"    -> c
      [] OTHER           -> NA

ToNumeric(c) ==
    CASE c.k = "numstr" -> Num(c.v)
      [] c.k = "num"    -> c
      [] OTHER          -> NA

----------------------------------------------------------------------------
(* Paso 2: detectar_duplicados *)

\* The texts used as keys, in lexicographic (code point) order.
OrdenTexto == <<"", "C1", "C2", "C3", "N/A", "NULL">>

TextRank(c) == CHOOSE i \in 1..Len(OrdenTexto) : OrdenTexto[i] = c.v

\* Mutant: the date column sorted ascending, so the oldest row of a key
\* comes first.
SortsBefore_Ascending(a, b, columna_id, temp) ==
    LET ka == a[columna_id]
        kb == b[columna_id]
    IN IF ka # kb
       THEN ~IsNA(ka) /\ (IsNA(kb) \/ TextRank(ka) < TextRank(kb))
       ELSE ~IsNA(a[temp]) /\ (IsNA(b[temp]) \/ a[temp].v < b[temp].v)

\* sort_values([columna_id, temp], ascending=[True, False]), na_position
\* 'last': TRUE when row a must come before row b.
SortsBefore(a, b, columna_id, temp) ==
    LET ka == a[columna_id]
        kb == b[columna_id]
    IN IF ka # kb
       THEN ~IsNA(ka) /\ (IsNA(kb) \/ TextRank(ka) < TextRank(kb))
       ELSE ~IsNA(a[temp]) /\ (IsNA(b[temp]) \/ a[temp].v > b[temp].v)

\* Stable insertion of row r into the sorted sequence s.
RECURSIVE InsertSorted(_, _, _, _)
InsertSorted(s, r, columna_id, temp) ==
    IF Len(s) = 0 THEN <<r>>
    ELSE IF SortsBefore(r, Head(s), columna_id, temp)
         THEN <<r>> \o s
         ELSE <<Head(s)>> \o InsertSorted(Tail(s), r, columna_id, temp)

RECURSIVE SortRows(_, _, _)
SortRows(rows, columna_id, temp) ==
    IF Len(rows) = 0 THEN <<>>
    ELSE InsertSorted(SortRows(SubSeq(rows, 1, Len(rows) - 1), columna_id, temp),
                      rows[Len(rows)], columna_id, temp)

\* df[~df.duplicated()]: keeps the first of rows equal in every column.
DropExactDuplicates(t) ==
    TakeRows(t, SelectSeq(Indices(Len(t.rows)),
        LAMBDA i : ~\E j \in 1..(i - 1) : t.rows[j] = t.rows[i]))

\* df.drop_duplicates(subset=columna_id, keep='first')
DropKeyDuplicates(t, columna_id) ==
    TakeRows(t, SelectSeq(Indices(Len(t.rows)),
        LAMBDA i : ~\E j \in 1..(i - 1) : t.rows[j][columna_id] = t.rows[i][columna_id]))

detectar_duplicados(df0, columna_id) ==
    LET d1 == DropExactDuplicates(df0)
        n_duplicados_id ==
            Cardinality({i \in 1..Len(d1.rows) :
                \E j \in 1..Len(d1.rows) :
                    j # i /\ d1.rows[j][columna_id] = d1.rows[i][columna_id]})
    IN IF n_duplicados_id > 0
       THEN IF HasCol(d1, "last_purchase_date")
            THEN LET temp   == "last_purchase_date_temp"
                     d2     == SetColumn(d1, temp, "datetime64",
                                  [i \in 1..Len(d1.rows) |->
                                      ToDatetime(d1.rows[i]["last_purchase_date"])])
                     sorted == [d2 EXCEPT !.rows = SortRows(d2.rows, columna_id, temp)]
                 IN DropColumns(DropKeyDuplicates(sorted, columna_id), {temp})
            ELSE DropKeyDuplicates(d1, columna_id)
       ELSE d1


----------------------------------------------------------------------------
(* Paso 3: normalizar_fechas *)

RECURSIVE normalizar_fechas(_, _)
normalizar_fechas(df0, columnas_fecha) ==
    IF Len(columnas_fecha) = 0 THEN df0
    ELSE LET columna == Head(columnas_fecha)
             d1 == IF ~HasCol(df0, columna) THEN df0
                   ELSE SetColumn(df0, columna, "datetime64",
                            [i \in 1..Len(df0.rows) |-> ToDatetime(df0.rows[i][columna])])
         IN normalizar_fechas(d1, Tail(columnas_fecha))

----------------------------------------------------------------------------
(* Paso 4: sentinel texts to NaN, numeric columns to numbers *)

\* df.replace('NULL', nan), df.replace('', nan), df.replace('N/A', nan)
ReplaceSentinels(t) ==
    [t EXCEPT !.rows =
        [i \in 1..Len(t.rows) |->
            [x \in Range(t.cols) |->
                LET c == t.rows[i][x]
                IN IF c.k = "str" /\ c.v \in {"NULL", "", "N/A"} THEN NA ELSE c]]]

\* The dtype pd.to_numeric gives a column of texts: int64 only when every
\* value is present and written without a decimal point.
NumericDtype(vals) ==
    IF \E i \in DOMAIN vals :
          \/ IsNA(ToNumeric(vals[i]))
          \/ ToNumeric(vals[i]).v[2] # 1
          \/ (vals[i].k = "numstr" /\ vals[i].f = "dec")
    THEN "float64" ELSE "int64"

RECURSIVE ConvertNumeric(_, _)
ConvertNumeric(t, columnas_numericas) ==
    IF Len(columnas_numericas) = 0 THEN t
    ELSE LET columna == Head(columnas_numericas)
             t1 == IF ~HasCol(t, columna) THEN t
                   ELSE IF t.dtype[columna] \in {"int64", "float64"} THEN t
                   ELSE SetColumn(t, columna, NumericDtype(Column(t, columna)),
                            [i \in 1..Len(t.rows) |-> ToNumeric(t.rows[i][columna])])
         IN ConvertNumeric(t1, Tail(columnas_numericas))

convertir_tipos(df0) ==
    ConvertNumeric(ReplaceSentinels(df0),
                   <<"monthly_spend", "total_shipments", "churn_label">>)

----------------------------------------------------------------------------
(* Paso 5: detectar_outliers (metodo 'umbrales'), corregir_outliers ('cap') *)

\* Comparisons with NaN are False.
NumLess(c, n) == ~IsNA(c) /\ RLess(c.v, Entero(n))

NumGreater(c, n) == ~IsNA(c) /\ RLess(Entero(n), c.v)

IsOutlier(c, columna) ==
    IF columna = "monthly_spend"
    THEN NumLess(c, UMBRAL_GASTO_MINIMO) \/ NumGreater(c, UMBRAL_GASTO_MAXIMO)
    ELSE NumGreater(c, UMBRAL_ENVIOS_MAXIMO)

RECURSIVE detectar_outliers(_, _)
detectar_outliers(df0, columnas_numericas) ==
    IF Len(columnas_numericas) = 0 THEN df0
    ELSE LET columna == Head(columnas_numericas)
             d1 == IF ~HasCol(df0, columna) THEN df0
                   ELSE IF columna \notin {"monthly_spend", "total_shipments"} THEN df0
                   ELSE SetColumn(df0, columna \o "_is_outlier", "bool",
                            [i \in 1..Len(df0.rows) |->
                                Bool(IsOutlier(df0.rows[i][columna], columna))])
         IN detectar_outliers(d1, Tail(columnas_numericas))

\* Mutant: negative values are left as they are, only the cap is applied.
CapGasto_SinNegativos(c) ==
    IF NumGreater(c, UMBRAL_GASTO_MAXIMO) THEN Num(Entero(UMBRAL_GASTO_MAXIMO)) ELSE c

\* df.loc[df[columna] < 0, columna] = 0, then the cap at the maximum.
CapGasto(c) ==
    LET c1 == IF NumLess(c, 0) THEN Num(Entero(0)) ELSE c
    IN IF NumGreater(c1, UMBRAL_GASTO_MAXIMO) THEN Num(Entero(UMBRAL_GASTO_MAXIMO)) ELSE c1

CapEnvios(c) ==
    IF NumGreater(c, UMBRAL_ENVIOS_MAXIMO) THEN Num(Entero(UMBRAL_ENVIOS_MAXIMO)) ELSE c

corregir_outliers(df0, columna) ==
    IF ~HasCol(df0, columna) THEN df0
    ELSE IF columna = "monthly_spend"
    THEN SetColumn(df0, columna, df0.dtype[columna],
             [i \in 1..Len(df0.rows) |-> CapGasto(df0.rows[i][columna])])
    ELSE IF columna = "total_shipments"
    THEN SetColumn(df0, columna, df0.dtype[columna],
             [i \in 1..Len(df0.rows) |-> CapEnvios(df0.rows[i][columna])])
    ELSE df0

\* [col for col in df.columns if col.endswith('_is_outlier')]
ColumnasOutlier(t) ==
    {c \in Range(t.cols) : c \in {"monthly_spend_is_outlier", "total_shipments_is_outlier"}}

----------------------------------------------------------------------------
(* Paso 6: manejar_valores_nulos *)

RECURSIVE InsertRat(_, _)
InsertRat(s, q) ==
    IF Len(s) = 0 THEN <<q>>
    ELSE IF RLess(q, Head(s)) THEN <<q>> \o s
    ELSE <<Head(s)>> \o InsertRat(Tail(s), q)

RECURSIVE SortRat(_)
SortRat(s) == IF Len(s) = 0 THEN <<>> ELSE InsertRat(SortRat(Tail(s)), Head(s))

\* Mutant: the smallest value of the column instead of its median.
Median_Minimo(vals) ==
    LET present == SelectSeq(vals, LAMBDA c : ~IsNA(c))
        sorted  == SortRat([i \in 1..Len(present) |-> present[i].v])
    IN IF Len(sorted) = 0 THEN NA ELSE Num(sorted[1])

\* Series.median(): NaN skipped; NaN when no value is left.
Median(vals) ==
    LET present == SelectSeq(vals, LAMBDA c : ~IsNA(c))
        sorted  == SortRat([i \in 1..Len(present) |-> present[i].v])
        n       == Len(sorted)
    IN IF n = 0 THEN NA
       ELSE IF n % 2 = 1 THEN Num(sorted[(n + 1) \div 2])
       ELSE NumCell(RHalf(RAdd(sorted[n \div 2], sorted[n \div 2 + 1])))

\* Mutant: the filled column is not kept.
FillNA_SinEfecto(vals, fill) == vals

FillNA(vals, fill) == [i \in DOMAIN vals |-> IF IsNA(vals[i]) THEN fill ELSE vals[i]]

\* fillna(method='ffill'): the last value seen above, in row order.
RECURSIVE LastValid(_, _)
LastValid(vals, i) ==
    IF i = 0 THEN NA
    ELSE IF ~IsNA(vals[i]) THEN vals[i]
    ELSE LastValid(vals, i - 1)

\* Mutant: backward fill, the first value seen below.
FFill_HaciaAtras(vals) ==
    [i \in DOMAIN vals |->
        LET abajo == {j \in DOMAIN vals : j >= i /\ ~IsNA(vals[j])}
        IN IF abajo = {} THEN NA
           ELSE vals[CHOOSE j \in abajo : \A m \in abajo : j <= m]]

FFill(vals) == [i \in DOMAIN vals |-> LastValid(vals, i)]

\* Mutant: every strategy removes the rows in which its column is missing.
AplicarEstrategia_SoloElimina(t, columna, estrategia) ==
    IF ~HasCol(t, columna) THEN t
    ELSE TakeRows(t, SelectSeq(Indices(Len(t.rows)),
                               LAMBDA i : ~IsNA(t.rows[i][columna])))

AplicarEstrategia(t, columna, estrategia) ==
    IF ~HasCol(t, columna) THEN t
    ELSE IF CountNA(t, columna) = 0 THEN t
    ELSE CASE estrategia = "MISSING" ->
                SetColumn(t, columna, t.dtype[columna],
                          FillNA(Column(t, columna), Str("MISSING")))
           [] estrategia = "mediana" ->
                SetColumn(t, columna, t.dtype[columna],
                          FillNA(Column(t, columna), Median(Column(t, columna))))
           [] estrategia = "ffill" ->
                SetColumn(t, columna, t.dtype[columna], FFill(Column(t, columna)))
           [] estrategia = "eliminar" ->
                TakeRows(t, SelectSeq(Indices(Len(t.rows)),
                                      LAMBDA i : ~IsNA(t.rows[i][columna])))
           [] OTHER -> t

RECURSIVE manejar_valores_nulos(_, _)
manejar_valores_nulos(df0, estrategias) ==
    IF Len(estrategias) = 0 THEN df0
    ELSE manejar_valores_nulos(
             AplicarEstrategia(df0, Head(estrategias)[1], Head(estrategias)[2]),
             Tail(estrategias))

----------------------------------------------------------------------------
(* Paso 7: hashing of the sensitive columns *)

\* Texts that str.strip() reduces to ''.
WhitespaceTexts == {"", " ", "   "}

\* str(valor)
StrOf(c) == IF c.k = "str" THEN c.v ELSE ToString(c.v)

\* Mutant: no strip(), a text of white space is hashed like any other.
hashear_valor_SinStrip(valor, salt) ==
    IF IsNA(valor) \/ StrOf(valor) = ""
    THEN Str("NULL")
    ELSE Hash(salt \o StrOf(valor))

hashear_valor(valor, salt) ==
    IF IsNA(valor) \/ StrOf(valor) \in WhitespaceTexts
    THEN Str("NULL")
    ELSE Hash(salt \o StrOf(valor))

hashear_columna(serie, salt) == [i \in DOMAIN serie |-> hashear_valor(serie[i], salt)]

\* The loop of lines 120-125: df[columna + sufijo] = hashear_columna(df[columna])
\* for every column of columnas, which are all present.
HashColumns(t, columnas, sufijo) ==
    AddColumns(t,
        [j \in 1..Len(columnas) |->
            Col(columnas[j] \o sufijo, "object",
                hashear_columna(Column(t, columnas[j]), SALT_HASHING))])

\* Mutant: the original columns are not dropped.
hashear_datos_sensibles_SinEliminar(df0, columnas, sufijo) ==
    HashColumns(df0, SelectSeq(columnas, LAMBDA c : HasCol(df0, c)), sufijo)

hashear_datos_sensibles(df0, columnas, sufijo) ==
    LET presentes == SelectSeq(columnas, LAMBDA c : HasCol(df0, c))
    IN DropColumns(HashColumns(df0, presentes, sufijo), Range(presentes))

----------------------------------------------------------------------------
(* df.to_csv(ruta, index=False) *)

WriteCell(c, dt) ==
    CASE c.k = "na"   -> Str("")
      [] c.k = "num"  -> NumStr(c.v, IF dt \in {"int64", "uint8"} THEN "int" ELSE "dec")
      [] c.k = "date" -> DateStr(c.v, "iso")
      [] c.k = "bool" -> Str(IF c.v THEN "True" ELSE "False")
      [] OTHER        -> c

\* Mutant: to_csv without index=False, the row index is written as a first
\* column, which a later read_csv names 'Unnamed: 0'.
to_csv_ConIndice(t) ==
    LET indice == "Unnamed: " \o ToString(Len(t.cols))
    IN [quoting |-> "none",
        cols    |-> <<indice>> \o t.cols,
        rows    |-> [i \in 1..Len(t.rows) |->
                       [x \in Range(t.cols) \cup {indice} |->
                           IF x = indice THEN NumStr(Entero(i - 1), "int")
                           ELSE WriteCell(t.rows[i][x], t.dtype[x])]]]

to_csv(t) ==
    [quoting |-> "none",
     cols    |-> t.cols,
     rows    |-> [i \in 1..Len(t.rows) |->
                    [x \in Range(t.cols) |-> WriteCell(t.rows[i][x], t.dtype[x])]]]


----------------------------------------------------------------------------
(* Feature engineering configuration: src/src/configuracion.py *)

VENTANA_RECENCIA_DIAS == 180

\* The bin edges <<e1, ..., en, inf>>.
Bins(edges) == Append([i \in 1..Len(edges) |-> Entero(edges[i])], Inf)

BINS_GASTO_MENSUAL == Bins(<<0, 500, 1500, 5000>>)

ETIQUETAS_GASTO == <<"Bajo", "Medio", "Alto", "Premium">>

BINS_FRECUENCIA_ENVIOS == Bins(<<0, 10, 30, 100>>)

ETIQUETAS_FRECUENCIA == <<"Ocasional", "Regular", "Frecuente", "VIP">>

----------------------------------------------------------------------------
(* Features: src/src/utilidades/features.py, in exact rational arithmetic *)

\* Mutant: pd.cut(right=False), intervals closed on the left and open on the
\* right.
Cut_CerradoIzquierda(c, bins, labels) ==
    IF IsNA(c) THEN NA
    ELSE LET hits == {j \in 1..Len(labels) :
                         RLeq(bins[j], c.v) /\ RLess(c.v, bins[j + 1])}
         IN IF hits = {} THEN NA ELSE Cat(labels[CHOOSE j \in hits : TRUE])

\* pd.cut(x, bins, labels): the intervals are open on the left and closed on
\* the right; a value in no interval, or missing, has no category.
Cut(c, bins, labels) ==
    IF IsNA(c) THEN NA
    ELSE LET hits == {j \in 1..Len(labels) :
                         RLess(bins[j], c.v) /\ RLeq(c.v, bins[j + 1])}
         IN IF hits = {} THEN NA ELSE Cat(labels[CHOOSE j \in hits : TRUE])

\* Series.max() of a datetime column: NaT when no date is present.
MaxDate(vals) ==
    LET present == {vals[i].v : i \in {j \in DOMAIN vals : ~IsNA(vals[j])}}
    IN IF present = {} THEN NA
       ELSE Date(CHOOSE m \in present : \A x \in present : x <= m)

\* Series.max() of a numeric column: NaN when no value is present.
SeriesMax(vals) ==
    LET present == {vals[i].v : i \in {j \in DOMAIN vals : ~IsNA(vals[j])}}
    IN IF present = {} THEN NaN
       ELSE CHOOSE m \in present : \A x \in present : RLeq(x, m)

\* (fecha_referencia - fecha).days
DiasDesde(fecha_referencia, c) ==
    IF IsNA(fecha_referencia) \/ IsNA(c) THEN NA
    ELSE Num(Entero(fecha_referencia.v - c.v))

\* .dt.days is int64, float64 once a value is missing.
DtypeDias(vals) ==
    IF \E i \in DOMAIN vals : IsNA(vals[i]) THEN "float64" ELSE "int64"

\* (condition).astype(int)
Flag(b) == Num(Entero(IF b THEN 1 ELSE 0))

calcular_recencia(df0) ==
    LET fecha_referencia == MaxDate(Column(df0, "last_purchase_date"))
        dias == [i \in 1..Len(df0.rows) |->
                    DiasDesde(fecha_referencia, df0.rows[i]["last_purchase_date"])]
    IN AddColumns(df0,
           <<Col("recencia_dias", DtypeDias(dias), dias),
             Col("categoria_recencia", "category",
                 [i \in 1..Len(df0.rows) |->
                     Cut(dias[i], Bins(<<0, 30, 90, 180>>),
                         <<"Muy_Reciente", "Reciente", "Inactivo", "Muy_Inactivo">>)])>>)

calcular_antiguedad(df0) ==
    LET fecha_referencia == MaxDate(Column(df0, "last_purchase_date"))
        dias == [i \in 1..Len(df0.rows) |->
                    DiasDesde(fecha_referencia, df0.rows[i]["signup_date"])]
    IN AddColumns(df0,
           <<Col("antiguedad_dias", DtypeDias(dias), dias),
             Col("categoria_antiguedad", "category",
                 [i \in 1..Len(df0.rows) |->
                     Cut(dias[i], Bins(<<0, 180, 365, 730>>),
                         <<"Nuevo", "Establecido", "Veterano", "Antiguo">>)])>>)

categorizar_monetary(df0) ==
    SetColumn(df0, "segmento_gasto", "category",
        [i \in 1..Len(df0.rows) |->
            Cut(df0.rows[i]["monthly_spend"], BINS_GASTO_MENSUAL, ETIQUETAS_GASTO)])

categorizar_frequency(df0) ==
    SetColumn(df0, "segmento_frecuencia", "category",
        [i \in 1..Len(df0.rows) |->
            Cut(df0.rows[i]["total_shipments"], BINS_FRECUENCIA_ENVIOS,
                ETIQUETAS_FRECUENCIA)])

\* The column x divided by the number m, as floats: 0/0 is NaN, x/0 is +-inf.
Normalizada(t, x, m) == [i \in 1..Len(t.rows) |-> RDiv(Q(t.rows[i][x]), m)]

\* Mutant: recency, frequency and spend weigh one third each.
Ponderado_PesosIguales(recencia_norm, frecuencia_norm, gasto_norm) ==
    RMul(RAdd(RAdd(RMul(recencia_norm, Rat(1, 3)), RMul(frecuencia_norm, Rat(1, 3))),
              RMul(gasto_norm, Rat(1, 3))),
         Entero(100))

\* Lines 240-244: (recencia_norm * 0.4 + frecuencia_norm * 0.3
\* + gasto_norm * 0.3) * 100.
Ponderado(recencia_norm, frecuencia_norm, gasto_norm) ==
    RMul(RAdd(RAdd(RMul(recencia_norm, Rat(4, 10)), RMul(frecuencia_norm, Rat(3, 10))),
              RMul(gasto_norm, Rat(3, 10))),
         Entero(100))

calcular_engagement_score(df0) ==
    LET n == Len(df0.rows)
        recencia_max    == SeriesMax(Column(df0, "recencia_dias"))
        frecuencia_max  == SeriesMax(Column(df0, "total_shipments"))
        gasto_max       == SeriesMax(Column(df0, "monthly_spend"))
        recencia_norm   == [i \in 1..n |->
                               RSub(Entero(1), Normalizada(df0, "recencia_dias",
                                                           recencia_max)[i])]
        frecuencia_norm == Normalizada(df0, "total_shipments", frecuencia_max)
        gasto_norm      == Normalizada(df0, "monthly_spend", gasto_max)
        score == [i \in 1..n |->
                     NumCell(Ponderado(recencia_norm[i], frecuencia_norm[i],
                                       gasto_norm[i]))]
        d1 == AddColumns(df0,
                  <<Col("recencia_norm", "float64",
                        [i \in 1..n |-> NumCell(recencia_norm[i])]),
                    Col("frecuencia_norm", "float64",
                        [i \in 1..n |-> NumCell(frecuencia_norm[i])]),
                    Col("gasto_norm", "float64",
                        [i \in 1..n |-> NumCell(gasto_norm[i])]),
                    Col("engagement_score", "float64", score),
                    Col("nivel_engagement", "category",
                        [i \in 1..n |->
                            Cut(score[i], <<Entero(0), Entero(25), Entero(50),
                                            Entero(75), Entero(100)>>,
                                <<"Bajo", "Medio", "Alto", "Muy_Alto">>)])>>)
    IN DropColumns(d1, {"recencia_norm", "frecuencia_norm", "gasto_norm"})

\* Series.replace(0, 1)
Replace01(c) == IF ~IsNA(c) /\ c.v = Entero(0) THEN Num(Entero(1)) ELSE c

\* Mutant: a customer counts as recently active up to the inactivity window.
ActivoReciente_HastaVentana(recencia) ==
    RLeq(Q(recencia), Entero(VENTANA_RECENCIA_DIAS))

\* Line 298: df['recencia_dias'] <= 90
ActivoReciente(recencia) == RLeq(Q(recencia), Entero(90))

crear_features_comportamiento(df0) ==
    LET n == Len(df0.rows)
        envios(i) == Q(Replace01(df0.rows[i]["total_shipments"]))
        ticket == [i \in 1..n |->
                      NumCell(RDiv(Q(df0.rows[i]["monthly_spend"]), envios(i)))]
    IN AddColumns(df0,
           <<Col("gasto_por_envio", "float64", ticket),
             Col("categoria_ticket", "category",
                 [i \in 1..n |->
                     Cut(ticket[i], Bins(<<0, 50, 100, 200>>),
                         <<"Bajo", "Medio", "Alto", "Premium">>)]),
             Col("dias_entre_compras", "float64",
                 [i \in 1..n |->
                     NumCell(RDiv(Q(df0.rows[i]["antiguedad_dias"]), envios(i)))]),
             Col("cliente_activo_reciente", "int64",
                 [i \in 1..n |->
                     Flag(ActivoReciente(df0.rows[i]["recencia_dias"]))]),
             Col("cliente_alto_valor", "int64",
                 [i \in 1..n |->
                     Flag(\/ RLess(Entero(1500), Q(df0.rows[i]["monthly_spend"]))
                          \/ RLess(Entero(50), Q(df0.rows[i]["total_shipments"])))])>>)

\* Mutant: the bins start at 0, so that a score of 0 falls in no interval.
NivelRiesgo_DesdeCero(score) ==
    Cut(score, <<Entero(0), Entero(1), Entero(2), Entero(4), Entero(6)>>,
        <<"Bajo", "Medio", "Alto", "Crítico">>)

\* Lines 350-354: pd.cut(score_riesgo_churn, bins=[-1, 0, 2, 4, 6], labels).
NivelRiesgo(score) ==
    Cut(score, <<Entero(-1), Entero(0), Entero(2), Entero(4), Entero(6)>>,
        <<"Bajo", "Medio", "Alto", "Crítico">>)

crear_features_riesgo_churn(df0) ==
    LET n == Len(df0.rows)
        riesgo_inactividad ==
            [i \in 1..n |->
                IF RLess(Entero(VENTANA_RECENCIA_DIAS), Q(df0.rows[i]["recencia_dias"]))
                THEN 1 ELSE 0]
        riesgo_bajo_engagement ==
            [i \in 1..n |->
                IF RLess(Q(df0.rows[i]["engagement_score"]), Entero(30)) THEN 1 ELSE 0]
        riesgo_nuevo_inactivo ==
            [i \in 1..n |->
                IF /\ RLess(Q(df0.rows[i]["antiguedad_dias"]), Entero(180))
                   /\ RLess(Entero(90), Q(df0.rows[i]["recencia_dias"]))
                THEN 1 ELSE 0]
        score == [i \in 1..n |->
                     Num(Entero(riesgo_inactividad[i] * 3 + riesgo_bajo_engagement[i] * 2
                                + riesgo_nuevo_inactivo[i] * 1))]
    IN AddColumns(df0,
           <<Col("riesgo_inactividad", "int64",
                 [i \in 1..n |-> Num(Entero(riesgo_inactividad[i]))]),
             Col("riesgo_bajo_engagement", "int64",
                 [i \in 1..n |-> Num(Entero(riesgo_bajo_engagement[i]))]),
             Col("riesgo_nuevo_inactivo", "int64",
                 [i \in 1..n |-> Num(Entero(riesgo_nuevo_inactivo[i]))]),
             Col("score_riesgo_churn", "int64", score),
             Col("nivel_riesgo", "category",
                 [i \in 1..n |->
                     NivelRiesgo(score[i])])>>)

generar_todas_features(df0) ==
    crear_features_riesgo_churn(
        crear_features_comportamiento(
            calcular_engagement_score(
                categorizar_frequency(
                    categorizar_monetary(
                        calcular_antiguedad(
                            calcular_recencia(df0)))))))

----------------------------------------------------------------------------
(* transformar_silver_a_gold: src/src/transformacion/silver_a_gold.py *)

\* The dtype pd.read_csv infers for a column: numbers when every field
\* present is a number, text otherwise; a table without rows is all text.
InferDtype(vals) ==
    IF Len(vals) = 0 THEN "object"
    ELSE IF \A i \in DOMAIN vals : IsNA(vals[i]) \/ vals[i].k = "numstr"
    THEN NumericDtype(vals)
    ELSE "object"

\* pd.read_csv(ruta_silver): the file was written by to_csv, without quotes.
ReadCsv(file) ==
    LET leido(x) == [i \in 1..Len(file.rows) |-> ReadCell(file.rows[i][x])]
        tipo     == [x \in Range(file.cols) |-> InferDtype(leido(x))]
    IN [cols  |-> file.cols,
        dtype |-> tipo,
        rows  |-> [i \in 1..Len(file.rows) |->
                     [x \in Range(file.cols) |->
                         IF tipo[x] = "object" THEN leido(x)[i]
                         ELSE ToNumeric(leido(x)[i])]]]

columnas_requeridas ==
    <<"customer_id", "signup_date", "last_purchase_date", "monthly_spend",
      "total_shipments", "churn_label">>

columnas_faltantes(t) == SelectSeq(columnas_requeridas, LAMBDA c : ~HasCol(t, c))

\* Pasos 1: read_csv and the two pd.to_datetime conversions.
cargar_silver(file) ==
    normalizar_fechas(ReadCsv(file), <<"signup_date", "last_purchase_date">>)

columnas_excluir ==
    {"customer_id", "full_name_hash", "email_hash", "phone_hash", "home_address_hash",
     "signup_date", "last_purchase_date"}

cols_ignorar_encoding ==
    {"customer_id", "churn_label", "full_name_hash", "email_hash", "phone_hash",
     "home_address_hash", "signup_date", "last_purchase_date"}

\* The categories of a categorical column, in the order of its labels.
Categorias(columna) ==
    CASE columna = "categoria_recencia" ->
             <<"Muy_Reciente", "Reciente", "Inactivo", "Muy_Inactivo">>
      [] columna = "categoria_antiguedad" ->
             <<"Nuevo", "Establecido", "Veterano", "Antiguo">>
      [] columna = "segmento_gasto" -> ETIQUETAS_GASTO
      [] columna = "segmento_frecuencia" -> ETIQUETAS_FRECUENCIA
      [] columna = "nivel_engagement" -> <<"Bajo", "Medio", "Alto", "Muy_Alto">>
      [] columna = "categoria_ticket" -> <<"Bajo", "Medio", "Alto", "Premium">>
      [] columna = "nivel_riesgo" -> <<"Bajo", "Medio", "Alto", "Crítico">>
      [] OTHER -> <<>>

\* The indicator columns of one categorical column: one per category.
DummiesDe(columna) ==
    LET etiquetas == Categorias(columna)
    IN [j \in 1..Len(etiquetas) |->
           [c |-> columna \o "_" \o etiquetas[j], de |-> columna, etiqueta |-> etiquetas[j]]]

\* drop_first=True: the indicator of the first category is left out.
RECURSIVE Dummies(_)
Dummies(columnas) ==
    IF Len(columnas) = 0 THEN <<>>
    ELSE Tail(DummiesDe(Head(columnas))) \o Dummies(Tail(columnas))

\* pd.get_dummies(df, columns=columnas, drop_first=True): the encoded columns
\* leave the table and their indicators are appended, column by column.
get_dummies(t, columnas) ==
    LET dummies == Dummies(columnas)
    IN AddColumns(DropColumns(t, Range(columnas)),
           [j \in 1..Len(dummies) |->
               Col(dummies[j].c, "uint8",
                   [i \in 1..Len(t.rows) |->
                       Flag(t.rows[i][dummies[j].de] = Cat(dummies[j].etiqueta))])])

\* Mutant: the categorical columns are encoded but columnas_excluir stay.
preparar_dataset_SinEliminar(df0) ==
    LET todas_categoricas ==
            SelectSeq(df0.cols, LAMBDA c : df0.dtype[c] \in {"object", "category"})
        columnas_categoricas ==
            SelectSeq(todas_categoricas, LAMBDA c : c \notin cols_ignorar_encoding)
    IN get_dummies(df0, columnas_categoricas)

\* Paso 3: encode the categorical columns, drop identifiers, hashes and dates.
preparar_dataset(df0) ==
    LET todas_categoricas ==
            SelectSeq(df0.cols, LAMBDA c : df0.dtype[c] \in {"object", "category"})
        columnas_categoricas ==
            SelectSeq(todas_categoricas, LAMBDA c : c \notin cols_ignorar_encoding)
        df_encoded == get_dummies(df0, columnas_categoricas)
    IN DropColumns(df_encoded, columnas_excluir)

\* select_dtypes(include=[np.number])
EsNumerica(dt) == dt \in {"int64", "float64", "uint8"}

\* Mutant: rows that still have a missing value are dropped (dropna) instead
\* of imputed.
imputar_nulos_EliminaFilas(df_gold) ==
    TakeRows(df_gold,
        SelectSeq(Indices(Len(df_gold.rows)),
            LAMBDA i : \A x \in Range(df_gold.cols) : ~IsNA(df_gold.rows[i][x])))

\* Paso 4, lines 171-179: every numeric column other than churn_label that
\* has nulls gets them filled with its own median.
imputar_nulos(df_gold) ==
    [df_gold EXCEPT !.rows =
        [i \in 1..Len(df_gold.rows) |->
            [x \in Range(df_gold.cols) |->
                IF /\ EsNumerica(df_gold.dtype[x])
                   /\ x # "churn_label"
                   /\ IsNA(df_gold.rows[i][x])
                THEN Median(Column(df_gold, x))
                ELSE df_gold.rows[i][x]]]]

----------------------------------------------------------------------------
(* The raw files the model feeds to the pipeline *)

ColumnasBronze ==
    <<"customer_id", "full_name", "email", "phone", "home_address", "signup_date",
      "last_purchase_date", "monthly_spend", "total_shipments", "churn_label">>

RawRow(id, name, phone, signup, purchase, spend, shipments, label) ==
    [x \in Range(ColumnasBronze) |->
        CASE x = "customer_id"        -> id
          [] x = "full_name"          -> name
          [] x = "email"              -> Str("ana@correo.com")
          [] x = "phone"              -> phone
          [] x = "home_address"       -> Str("Calle 1")
          [] x = "signup_date"        -> signup
          [] x = "last_purchase_date" -> purchase
          [] x = "monthly_spend"      -> spend
          [] x = "total_shipments"    -> shipments
          [] x = "churn_label"        -> label]

\* Every sequence of at most MaxRows rows drawn from rowSet.
SeqsUpTo(rowSet) == UNION {[1..n -> rowSet] : n \in 0..MaxRows}

RawFiles(quotings, rowSet) ==
    {[quoting |-> q, cols |-> ColumnasBronze, rows |-> r] :
        q \in quotings, r \in SeqsUpTo(rowSet)}

\* Row i of the file gets the key C<i>: a file without repeated keys.
Keyed(file) ==
    [file EXCEPT !.rows =
        [i \in 1..Len(file.rows) |->
            [file.rows[i] EXCEPT !["customer_id"] = Str(OrdenTexto[i + 1])]]]

NoTable == [cols |-> <<>>, dtype |-> <<>>, rows |-> <<>>]

NoFile == [quoting |-> "none", cols |-> <<>>, rows |-> <<>>]

----------------------------------------------------------------------------
(* transformar_bronze_a_silver, one action per paso *)

CargarBronze ==
    /\ pc = "inicio"
    /\ bronze # NoFile
    /\ df' = cargar_bronze(bronze)
    /\ pc' = "cargado"
    /\ UNCHANGED <<bronze, silver, gold, previo, corrida>>

DetectarDuplicados ==
    /\ pc = "cargado"
    /\ HasCol(df, "customer_id")
    /\ df' = detectar_duplicados(df, "customer_id")
    /\ pc' = "deduplicado"
    /\ UNCHANGED <<bronze, silver, gold, previo, corrida>>

NormalizarFechas ==
    /\ pc = "deduplicado"
    /\ df' = normalizar_fechas(df, <<"signup_date", "last_purchase_date">>)
    /\ pc' = "fechas"
    /\ UNCHANGED <<bronze, silver, gold, previo, corrida>>

ConvertirTipos ==
    /\ pc = "fechas"
    /\ df' = convertir_tipos(df)
    /\ pc' = "tipos"
    /\ UNCHANGED <<bronze, silver, gold, previo, corrida>>

DetectarOutliers ==
    /\ pc = "tipos"
    /\ df' = detectar_outliers(df, <<"monthly_spend", "total_shipments">>)
    /\ pc' = "marcado"
    /\ UNCHANGED <<bronze, silver, gold, previo, corrida>>

CorregirOutliers ==
    /\ pc = "marcado"
    /\ LET d1 == corregir_outliers(df, "monthly_spend")
           d2 == corregir_outliers(d1, "total_shipments")
       IN df' = DropColumns(d2, ColumnasOutlier(d2))
    /\ pc' = "corregido"
    /\ UNCHANGED <<bronze, silver, gold, previo, corrida>>

ManejarValoresNulos ==
    /\ pc = "corregido"
    /\ df' = manejar_valores_nulos(df, ESTRATEGIA_NULOS)
    /\ pc' = "sin_nulos"
    /\ UNCHANGED <<bronze, silver, gold, previo, corrida>>

HashearDatosSensibles ==
    /\ pc = "sin_nulos"
    /\ df' = hashear_datos_sensibles(df, COLUMNAS_SENSIBLES, "_hash")
    /\ pc' = "hasheado"
    /\ UNCHANGED <<bronze, silver, gold, previo, corrida>>

GuardarSilver ==
    /\ pc = "hasheado"
    /\ silver' = to_csv(df)
    /\ pc' = "silver"
    /\ UNCHANGED <<bronze, df, gold, previo, corrida>>

\* A second run of the cleaned-layer pipeline on its own output.
Reprocesar ==
    /\ pc = "silver"
    /\ corrida < MaxCorridas
    /\ bronze' = silver
    /\ previo' = silver
    /\ corrida' = corrida + 1
    /\ df' = NoTable
    /\ pc' = "inicio"
    /\ UNCHANGED <<silver, gold>>

NextSilver ==
    \/ CargarBronze
    \/ DetectarDuplicados
    \/ NormalizarFechas
    \/ ConvertirTipos
    \/ DetectarOutliers
    \/ CorregirOutliers
    \/ ManejarValoresNulos
    \/ HashearDatosSensibles
    \/ GuardarSilver

InitWith(files) ==
    /\ pc = "inicio"
    /\ bronze \in files
    /\ df = NoTable
    /\ silver = NoFile
    /\ gold = NoFile
    /\ previo = NoFile
    /\ corrida = 1

----------------------------------------------------------------------------
(* Deduplication: files with repeated keys, sentinel keys and bad dates *)

FilasDuplicados ==
    {RawRow(id, Str("Ana"), Str("555"), DateStr(0, "iso"), purchase,
            NumStr(Entero(100), "int"), NumStr(Entero(10), "int"), NumStr(Entero(1), "int")) :
        id \in {Str("C1"), Str("NULL"), Str("N/A")},
        purchase \in {DateStr(100, "iso"), DateStr(252, "dmy"), Str("sin fecha"), Str("")}}

InitDuplicados == InitWith(RawFiles({"none", "line"}, FilasDuplicados))

SpecDuplicados == InitDuplicados /\ [][NextSilver]_vars


\* No two rows carry the same customer_id; like Series.duplicated, a missing
\* key repeats a missing key.
KeysUnique(t) ==
    \A i, j \in 1..Len(t.rows) :
        i # j => t.rows[i]["customer_id"] # t.rows[j]["customer_id"]

\* C1: after detectar_duplicados(df, 'customer_id'), and in the cleaned
\* (silver) table, every customer_id value appears in exactly one row.
C1_KeyUniqueness ==
    pc \in {"deduplicado", "hasheado", "silver"} => KeysUnique(df)

\* The rows of the loaded table that carry key k.
SameKey(t, k) == {i \in 1..Len(t.rows) : t.rows[i]["customer_id"] = k}

\* Row r is at least as recent as row s: a parseable date beats a missing
\* or unparseable one, a later date beats an earlier one.
AtLeastAsRecent(r, s) ==
    LET dr == ToDatetime(r["last_purchase_date"])
        ds == ToDatetime(s["last_purchase_date"])
    IN IsNA(ds) \/ (~IsNA(dr) /\ dr.v >= ds.v)

\* C5: when several rows share a customer_id, detectar_duplicados keeps for
\* that key exactly one row, it is one of the input rows with all its values,
\* and its last_purchase_date is the most recent among the rows of that key.
C5_KeepsMostRecent ==
    pc = "deduplicado" =>
        LET entrada == cargar_bronze(bronze)
        IN \A i \in 1..Len(entrada.rows) :
              LET k == entrada.rows[i]["customer_id"]
              IN /\ Cardinality(SameKey(df, k)) = 1
                 /\ \A o \in SameKey(df, k) :
                       /\ \E j \in SameKey(entrada, k) : df.rows[o] = entrada.rows[j]
                       /\ \A j \in SameKey(entrada, k) :
                             AtLeastAsRecent(df.rows[o], entrada.rows[j])

\* Two rows of one key with different parseable dates collapsed to the later.
C5_Witness ==
    /\ pc = "deduplicado"
    /\ LET entrada == cargar_bronze(bronze)
       IN \E i, j \in 1..Len(entrada.rows) :
             /\ entrada.rows[i]["customer_id"] = entrada.rows[j]["customer_id"]
             /\ entrada.rows[i]["last_purchase_date"] = DateStr(100, "iso")
             /\ entrada.rows[j]["last_purchase_date"] = DateStr(252, "dmy")
             /\ i < j
             /\ \E o \in 1..Len(df.rows) : df.rows[o] = entrada.rows[j]
             /\ ~\E o \in 1..Len(df.rows) : df.rows[o] = entrada.rows[i]


----------------------------------------------------------------------------
(* Values: labels, spends and shipment counts of every kind *)

Ent(n) == NumStr(Entero(n), "int")

FilaTipica(name, phone, purchase, spend, shipments, label) ==
    RawRow(Str("C1"), name, phone, DateStr(0, "iso"), purchase, spend, shipments, label)

FilasEtiqueta ==
    {FilaTipica(Str("Ana"), Str("555"), DateStr(100, "iso"), Ent(100), Ent(10), label) :
        label \in {Ent(0), Ent(1), Ent(2), Str("si"), Str("NULL"), Str("")}}

FilasGasto ==
    {FilaTipica(Str("Ana"), Str("555"), DateStr(100, "iso"), spend, shipments, Ent(1)) :
        spend \in {Ent(-50), Ent(100), Ent(300), Ent(20000), Str("")},
        shipments \in {Ent(10), Ent(600), Str("muchos")}}

KeyedFiles(quotings, rowSet) == {Keyed(file) : file \in RawFiles(quotings, rowSet)}

InitValores ==
    InitWith(KeyedFiles({"none", "line"}, FilasEtiqueta)
             \cup KeyedFiles({"none", "line"}, FilasGasto))

SpecValores == InitValores /\ [][NextSilver]_vars

\* C2: in the cleaned (silver) table churn_label is non-missing and binary
\* (0 or 1) in every row, whatever text the raw field contained.
C2_LabelBinary ==
    pc = "silver" =>
        \A i \in 1..Len(df.rows) :
            /\ df.rows[i]["churn_label"].k = "num"
            /\ df.rows[i]["churn_label"].v \in {Entero(0), Entero(1)}

InRange(c, lo, hi) == c.k = "num" /\ RLeq(Entero(lo), c.v) /\ RLeq(c.v, Entero(hi))

AtMost(c, hi) == c.k = "num" /\ RLeq(c.v, Entero(hi))

\* C3: in the cleaned (silver) table every row's monthly_spend lies in
\* [0, UMBRAL_GASTO_MAXIMO] and every row's total_shipments is at most
\* UMBRAL_ENVIOS_MAXIMO, rows imputed by median-fill included.
C3_Bounds ==
    pc = "silver" =>
        \A i \in 1..Len(df.rows) :
            /\ InRange(df.rows[i]["monthly_spend"], 0, UMBRAL_GASTO_MAXIMO)
            /\ AtMost(df.rows[i]["total_shipments"], UMBRAL_ENVIOS_MAXIMO)


----------------------------------------------------------------------------
(* Anonymization and a second run of the pipeline on its own output *)

FilasPII ==
    {FilaTipica(name, phone, DateStr(100, "iso"), Ent(100), Ent(10), Ent(1)) :
        name \in {Str("Ana"), Str("   "), Str("")},
        phone \in {Str("555"), Str("")}}

FilasLimpias ==
    {FilaTipica(Str("Ana"), Str("555"), purchase, spend, Ent(10), Ent(1)) :
        purchase \in {DateStr(100, "iso"), DateStr(252, "dmy")},
        spend \in {Ent(100), NumStr(Rat(501, 2), "dec"), Ent(20000)}}

\* The file without the columns cs.
WithoutColumns(file, cs) ==
    LET keep == SelectSeq(file.cols, LAMBDA c : c \notin cs)
    IN [file EXCEPT !.cols = keep,
                    !.rows = [i \in 1..Len(file.rows) |->
                                 [x \in Range(keep) |-> file.rows[i][x]]]]

InitReproceso ==
    InitWith(KeyedFiles({"none", "line"}, FilasPII)
             \cup {WithoutColumns(file, {"phone", "home_address"}) :
                      file \in KeyedFiles({"none"}, FilasPII)}
             \cup KeyedFiles({"none"}, FilasLimpias))

NextReproceso == NextSilver \/ Reprocesar

SpecReproceso == InitReproceso /\ [][NextReproceso]_vars

\* No field of the file is read back as missing by the loader.
NoMissingValues(file) ==
    \A i \in 1..Len(file.rows) :
        \A x \in Range(file.cols) : ~IsNA(ReadCell(file.rows[i][x]))

\* C4: the cleaned-layer pipeline run on a table that is its own output,
\* with unique keys and no missing values, returns a table equal to its
\* input: same columns, same rows, same values.
C4_Idempotence ==
    (pc = "silver" /\ corrida = 2 /\ NoMissingValues(previo)) => silver = previo

\* A second run finished on a first output that had rows, no missing value,
\* a capped spend and a date that the first run had to normalize.
C4_Witness ==
    /\ pc = "silver"
    /\ corrida = 2
    /\ NoMissingValues(previo)
    /\ Len(previo.rows) >= 2
    /\ \E i \in 1..Len(previo.rows) :
          previo.rows[i]["monthly_spend"].v = Entero(UMBRAL_GASTO_MAXIMO)
    /\ \E i \in 1..Len(previo.rows) :
          previo.rows[i]["monthly_spend"].v = Rat(501, 2)

\* The values of the sensitive columns as the raw file holds them, blank
\* texts and NA tokens aside.
RawPII(file) ==
    {file.rows[i][c] : i \in 1..Len(file.rows),
                       c \in Range(COLUMNAS_SENSIBLES) \cap Range(file.cols)}
    \ {Str(t) : t \in NaTokens \cup WhitespaceTexts}

HashFrame(before, after) ==
    /\ \A c \in Range(COLUMNAS_SENSIBLES) :
          HasCol(before, c) => ~HasCol(after, c) /\ HasCol(after, c \o "_hash")
    /\ Len(after.rows) = Len(before.rows)
    /\ \A c \in Range(before.cols) \ Range(COLUMNAS_SENSIBLES) :
          HasCol(after, c) /\ Column(after, c) = Column(before, c)

----------------------------------------------------------------------------
(* hashear_columna applied to a series of values of every kind *)

ValoresHash ==
    {NA, Str(""), Str(" "), Str("   "), Str("NULL"), Str("MISSING"), Str("Ana"),
     Ent(0)}

InitHashing ==
    /\ pc = "serie"
    /\ \E vals \in SeqsUpTo(ValoresHash) :
          df = [cols  |-> <<"valor">>,
                dtype |-> [x \in {"valor"} |-> "object"],
                rows  |-> [i \in 1..Len(vals) |-> [x \in {"valor"} |-> vals[i]]]]
    /\ bronze = NoFile
    /\ silver = NoFile
    /\ gold = NoFile
    /\ previo = NoFile
    /\ corrida = 1

HashearColumna ==
    /\ pc = "serie"
    /\ df' = SetColumn(df, "valor_hash", "object",
                       hashear_columna(Column(df, "valor"), SALT_HASHING))
    /\ pc' = "serie_hasheada"
    /\ UNCHANGED <<bronze, silver, gold, previo, corrida>>

SpecHashing == InitHashing /\ [][HashearColumna]_vars

\* None, NaN, '' or a text of white space only.
IsBlank(c) == IsNA(c) \/ (c.k = "str" /\ c.v \in {"", " ", "   "})

\* C8: hashear_valor returns the marker 'NULL' exactly when the value is
\* None, missing or a blank text; every other value gets a digest, never
\* equal to 'NULL', and equal values get equal digests.
C8_NullMarker ==
    pc = "serie_hasheada" =>
        \A i \in 1..Len(df.rows) :
            LET valor == df.rows[i]["valor"]
                h     == df.rows[i]["valor_hash"]
            IN /\ (h = Str("NULL")) <=> IsBlank(valor)
               /\ ~IsBlank(valor) => h.k = "hash"
               /\ \A j \in 1..Len(df.rows) :
                     df.rows[j]["valor"] = valor => df.rows[j]["valor_hash"] = h

\* A series with a blank text, the text 'NULL' and a missing value was hashed.
C8_Witness ==
    /\ pc = "serie_hasheada"
    /\ \E i, j, l \in 1..Len(df.rows) :
          /\ df.rows[i]["valor"] = Str("   ") /\ df.rows[i]["valor_hash"] = Str("NULL")
          /\ df.rows[j]["valor"] = Str("NULL") /\ df.rows[j]["valor_hash"].k = "hash"
          /\ df.rows[l]["valor"] = NA /\ df.rows[l]["valor_hash"] = Str("NULL")

----------------------------------------------------------------------------
(* transformar_silver_a_gold, one action per paso *)

\* A date column holds a text that pd.to_datetime cannot parse.
FechasInvalidas(t) ==
    \E c \in {"signup_date", "last_purchase_date"} : \E i \in 1..Len(t.rows) :
        HasCol(t, c) /\ t.rows[i][c].k = "str"

\* Lines 57-60: the silver file does not exist yet.
FallaSilverAusente ==
    /\ pc = "inicio"
    /\ silver = NoFile
    /\ pc' = "error"
    /\ UNCHANGED <<bronze, df, silver, gold, previo, corrida>>

\* Paso 1: load the silver file and convert its dates.
CargarSilver ==
    /\ pc = "silver"
    /\ columnas_faltantes(ReadCsv(silver)) = <<>>
    /\ ~FechasInvalidas(ReadCsv(silver))
    /\ df' = cargar_silver(silver)
    /\ pc' = "silver_cargado"
    /\ UNCHANGED <<bronze, silver, gold, previo, corrida>>

\* Lines 70-77: a required column is missing (ValueError), or a date does
\* not parse.
FallaCargaSilver ==
    /\ pc = "silver"
    /\ \/ columnas_faltantes(ReadCsv(silver)) # <<>>
       \/ FechasInvalidas(ReadCsv(silver))
    /\ df' = ReadCsv(silver)
    /\ pc' = "error"
    /\ UNCHANGED <<bronze, silver, gold, previo, corrida>>

\* Paso 2
GenerarFeatures ==
    /\ pc = "silver_cargado"
    /\ Len(df.rows) > 0
    /\ df' = generar_todas_features(df)
    /\ pc' = "features"
    /\ UNCHANGED <<bronze, silver, gold, previo, corrida>>

\* A table without rows: pasos 2 to 4 end in an exception, at the latest the
\* ZeroDivisionError of line 165, and no gold file is written.
FallaSinFilas ==
    /\ pc = "silver_cargado"
    /\ Len(df.rows) = 0
    /\ pc' = "error"
    /\ UNCHANGED <<bronze, df, silver, gold, previo, corrida>>

\* Paso 3
PrepararDataset ==
    /\ pc = "features"
    /\ df' = preparar_dataset(df)
    /\ pc' = "preparado"
    /\ UNCHANGED <<bronze, silver, gold, previo, corrida>>

\* Paso 4: the target is present (it is a required column that paso 3 never
\* encodes nor drops), nulls are imputed and the table is written.
GuardarGold ==
    /\ pc = "preparado"
    /\ HasCol(df, "churn_label")
    /\ df' = imputar_nulos(df)
    /\ gold' = to_csv(imputar_nulos(df))
    /\ pc' = "gold"
    /\ UNCHANGED <<bronze, silver, previo, corrida>>

NextGold ==
    \/ FallaSilverAusente
    \/ CargarSilver
    \/ FallaCargaSilver
    \/ GenerarFeatures
    \/ FallaSinFilas
    \/ PrepararDataset
    \/ GuardarGold

----------------------------------------------------------------------------
(* The whole pipeline: bronze -> silver -> gold, with reruns of silver *)

\* Customers of every profile: recent and inactive, new and old, zero and
\* high spend, zero and many shipments, a missing date, a missing spend.
FilasOro ==
    {FilaTipica(Str("Ana"), Str("555"), DateStr(400, "iso"), Ent(100), Ent(10), Ent(0)),
     FilaTipica(Str("Ana"), Str("555"), DateStr(100, "iso"), Ent(100), Ent(10), Ent(1)),
     FilaTipica(Str("Ana"), Str("555"), DateStr(380, "iso"), Ent(600), Ent(20), Ent(0)),
     FilaTipica(Str("Ana"), Str("555"), DateStr(100, "iso"), Ent(-50), Ent(0), Ent(1)),
     FilaTipica(Str("Ana"), Str(""), DateStr(400, "iso"), Ent(2000), Ent(60), Ent(0)),
     FilaTipica(Str("Ana"), Str("555"), Str(""), Ent(100), Ent(10), Ent(0)),
     FilaTipica(Str("Ana"), Str("555"), DateStr(400, "iso"), Str(""), Ent(10), Ent(1)),
     [FilaTipica(Str("Ana"), Str("555"), DateStr(100, "iso"), Ent(2000), Ent(0), Ent(1))
          EXCEPT !["signup_date"] = DateStr(350, "iso")]}

Init ==
    InitWith(KeyedFiles({"none"}, FilasOro)
             \cup {WithoutColumns(file, {"churn_label"}) :
                      file \in KeyedFiles({"line"}, FilasLimpias)})

Next == NextSilver \/ Reprocesar \/ NextGold

Spec == Init /\ [][Next]_vars

\* The tables of the model have no text column besides the identifiers and
\* hashes that paso 3 leaves unencoded.
TextColumnsIgnored ==
    pc = "features" =>
        \A c \in Range(df.cols) : df.dtype[c] = "object" => c \in cols_ignorar_encoding

----------------------------------------------------------------------------
(* The modeling (gold) table *)

\* C9: the gold table contains churn_label and, besides it, only numeric or
\* indicator columns: customer_id, every *_hash column and the two date
\* columns are absent, and no text, categorical or date column remains.
C9_GoldColumns ==
    pc = "gold" =>
        /\ HasCol(df, "churn_label")
        /\ gold.cols = df.cols
        /\ \A c \in columnas_excluir : ~HasCol(df, c)
        /\ \A c \in Range(df.cols) :
              /\ EsNumerica(df.dtype[c])
              /\ \A i \in 1..Len(df.rows) : df.rows[i][c].k \in {"num", "na"}
              /\ \A i \in 1..Len(gold.rows) : gold.rows[i][c].k \in {"numstr", "str"}
              /\ \A i \in 1..Len(gold.rows) : gold.rows[i][c].k = "str" => gold.rows[i][c].v = ""

\* A gold table of two customers or more was written from a silver table
\* that carried the key, the four hashes and both dates, and at least one
\* indicator column is set.
C9_Witness ==
    /\ pc = "gold"
    /\ Len(gold.rows) >= 2
    /\ \A c \in columnas_excluir : c \in Range(silver.cols)
    /\ \E i \in 1..Len(df.rows) :
          /\ df.rows[i]["categoria_recencia_Muy_Inactivo"] = Num(Entero(1))
          /\ df.rows[i]["segmento_gasto_Alto"] = Num(Entero(1))

\* C10: the gold table has no missing value in any column, for a single-row
\* table and for a table whose rows share one last_purchase_date as well.
C10_NoMissingGold ==
    pc = "gold" =>
        \A i \in 1..Len(gold.rows) : \A c \in Range(gold.cols) :
            gold.rows[i][c] # Str("")

----------------------------------------------------------------------------
(* Rows of the gold table against rows of the silver table *)

\* Row i of the table read from the silver file, as paso 1 loads it.
FilaSilver(i) == cargar_silver(silver).rows[i]

\* C11: feature derivation and encoding neither add nor remove rows: from
\* paso 2 on the table has one row per row of the silver file, in the same
\* order (the key, while it is still there, and the monthly spend agree row
\* by row), and the churn_label written to the gold file is the churn_label
\* of the silver file, row by row.
C11_RowsPreserved ==
    pc \in {"features", "preparado", "gold"} =>
        /\ Len(df.rows) = Len(silver.rows)
        /\ \A i \in 1..Len(df.rows) :
              /\ df.rows[i]["churn_label"] = FilaSilver(i)["churn_label"]
              /\ HasCol(df, "customer_id") =>
                     df.rows[i]["customer_id"] = FilaSilver(i)["customer_id"]
              /\ ~IsNA(FilaSilver(i)["monthly_spend"]) =>
                     df.rows[i]["monthly_spend"] = FilaSilver(i)["monthly_spend"]
        /\ pc = "gold" =>
              /\ Len(gold.rows) = Len(silver.rows)
              /\ \A i \in 1..Len(gold.rows) :
                    gold.rows[i]["churn_label"] = silver.rows[i]["churn_label"]

\* A gold file of three customers whose labels and spends differ from row to
\* row, so that a reordering or a lost row would show.
C11_Witness ==
    /\ pc = "gold"
    /\ Len(gold.rows) = 3
    /\ gold.rows[1]["churn_label"] # gold.rows[2]["churn_label"]
    /\ gold.rows[2]["monthly_spend"] # gold.rows[3]["monthly_spend"]

----------------------------------------------------------------------------
(* ejecutar_pipeline_completo of src/main.py: the four stages in one run *)

\* Salir with the exit status of every run.
Salir_SiempreCero ==
    /\ pc \in {"error_bronze", "error_silver", "error", "error_modelo", "modelo"}
    /\ pc' = "exit_0"
    /\ UNCHANGED <<bronze, df, silver, gold, previo, corrida>>

\* Paso 1/4, cargar_bronze(): the raw file exists and is loaded; nothing is
\* written.
CargarDatosBronze ==
    /\ pc = "main"
    /\ bronze # NoFile
    /\ df' = cargar_datos_bronze(bronze)
    /\ pc' = "inicio"
    /\ UNCHANGED <<bronze, silver, gold, previo, corrida>>

\* cargar_bronze.py lines 50-52: the raw source is missing, FileNotFoundError.
FallaBronzeAusente ==
    /\ pc = "main"
    /\ bronze = NoFile
    /\ pc' = "error_bronze"
    /\ UNCHANGED <<bronze, df, silver, gold, previo, corrida>>

\* limpieza.py line 64: df[columna_id] of a table without customer_id raises
\* KeyError, which bronze_a_silver.main re-raises.
FallaDuplicados ==
    /\ pc = "cargado"
    /\ ~HasCol(df, "customer_id")
    /\ pc' = "error_silver"
    /\ UNCHANGED <<bronze, df, silver, gold, previo, corrida>>

\* Paso 4/4: entrenar_modelo() returned a model and its metrics. Whether the
\* training succeeds on a given gold file is decided by the learning
\* library, outside the model: both outcomes are possible.
EntrenarModelo ==
    /\ pc = "gold"
    /\ pc' = "modelo"
    /\ UNCHANGED <<bronze, df, silver, gold, previo, corrida>>

\* entrenar_modelo.main catches its own exception and returns (None, None);
\* main.py line 91 then calls metricas.get on None, an AttributeError that
\* the except of line 106 turns into a failed run.
FallaEntrenamiento ==
    /\ pc = "gold"
    /\ pc' = "error_modelo"
    /\ UNCHANGED <<bronze, df, silver, gold, previo, corrida>>

\* main.py lines 104-110 and 216: sys.exit(0 if exito else 1).
Salir ==
    /\ pc \in {"error_bronze", "error_silver", "error", "error_modelo", "modelo"}
    /\ pc' = IF pc = "modelo" THEN "exit_0" ELSE "exit_1"
    /\ UNCHANGED <<bronze, df, silver, gold, previo, corrida>>

\* Raw sources of a full run: ordinary files with and without rows, a file
\* without the target column, a file without the key column, and no file.
FuentesCompleto ==
    LET archivos == KeyedFiles({"none", "line"}, FilasLimpias)
    IN archivos
       \cup {WithoutColumns(file, {"churn_label"}) : file \in archivos}
       \cup {WithoutColumns(file, {"customer_id"}) : file \in archivos}
       \cup {NoFile}

InitCompleto ==
    /\ pc = "main"
    /\ bronze \in FuentesCompleto
    /\ df = NoTable
    /\ silver = NoFile
    /\ gold = NoFile
    /\ previo = NoFile
    /\ corrida = 1

NextCompleto ==
    \/ CargarDatosBronze
    \/ FallaBronzeAusente
    \/ NextSilver
    \/ FallaDuplicados
    \/ CargarSilver
    \/ FallaCargaSilver
    \/ GenerarFeatures
    \/ FallaSinFilas
    \/ PrepararDataset
    \/ GuardarGold
    \/ EntrenarModelo
    \/ FallaEntrenamiento
    \/ Salir

SpecCompleto == InitCompleto /\ [][NextCompleto]_vars

\* The control points of each stage, from its start to just before it returns.
PcSilver == {"inicio", "cargado", "deduplicado", "fechas", "tipos", "marcado",
             "corregido", "sin_nulos", "hasheado"}

PcGold == {"silver", "silver_cargado", "features", "preparado"}

PcError == {"error_bronze", "error_silver", "error", "error_modelo"}

\* The stages run in order, each after the previous one returned: before
\* the silver stage returns there is no silver file, before the gold stage
\* returns there is no gold file, and the gold stage and the training run
\* on files the stages before them wrote.
EtapasEnOrden ==
    /\ pc \in {"main", "error_bronze"} => df = NoTable /\ silver = NoFile /\ gold = NoFile
    /\ pc \in PcSilver \cup {"error_silver"} => silver = NoFile /\ gold = NoFile
    /\ pc \in PcGold \cup {"error"} => silver # NoFile /\ gold = NoFile
    /\ pc \in {"gold", "modelo", "error_modelo", "exit_0"} =>
           silver # NoFile /\ gold # NoFile

\* After a failure no stage starts and nothing is written: the only step is
\* the exit with status 1; status 0 is given only after the training returned.
FallaTerminaCorrida ==
    /\ pc \in PcError => pc' = "exit_1" /\ UNCHANGED <<bronze, df, silver, gold>>
    /\ pc' = "exit_0" => pc = "modelo"
    /\ pc' = "exit_1" => pc \in PcError
    /\ pc \in {"exit_0", "exit_1"} => UNCHANGED vars

\* C12: in a full run the stages execute in the order bronze load, silver,
\* gold, training, each after the previous one returned; a stage that fails
\* (raw source missing, key or target column absent, no rows) writes no
\* output table, no later stage starts and the run exits with status 1; the
\* run exits with status 0 only if every stage returned.
C12_StagesAndFailures == [](EtapasEnOrden) /\ [][FallaTerminaCorrida]_vars

\* A run that failed in the gold stage on a silver file without the target
\* column has exited with status 1, leaving the silver file and no gold file.
C12_Witness ==
    /\ pc = "exit_1"
    /\ silver # NoFile
    /\ "churn_label" \notin Range(silver.cols)
    /\ gold = NoFile

----------------------------------------------------------------------------
(* Risk score and risk tier *)

\* The only risk flag of row r is inactivity: recency beyond the window,
\* engagement_score at least 30, and not a new account without recent
\* purchases.
SoloInactividad(r) ==
    /\ ~IsNA(r["recencia_dias"])
    /\ RLess(Entero(VENTANA_RECENCIA_DIAS), r["recencia_dias"].v)
    /\ ~IsNA(r["engagement_score"])
    /\ RLeq(Entero(30), r["engagement_score"].v)
    /\ ~(/\ RLess(Q(r["antiguedad_dias"]), Entero(180))
         /\ RLess(Entero(90), r["recencia_dias"].v))

\* C13: a record whose only risk flag is inactivity gets
\* score_riesgo_churn = 3 and the second of the four risk tiers, 'Medio'.
C13_OnlyInactivityMedio ==
    pc = "features" =>
        \A i \in 1..Len(df.rows) :
            SoloInactividad(df.rows[i]) =>
                /\ df.rows[i]["score_riesgo_churn"] = Num(Entero(3))
                /\ df.rows[i]["nivel_riesgo"] = Cat("Medio")

\* The features of a table in which some customer has inactivity as the
\* only risk flag: the score is 3 and pd.cut, with the bins (0, 2] and
\* (2, 4], gives the third tier.
C13_Witness ==
    /\ pc = "features"
    /\ \E i \in 1..Len(df.rows) :
          /\ SoloInactividad(df.rows[i])
          /\ df.rows[i]["riesgo_inactividad"] = Num(Entero(1))
          /\ df.rows[i]["riesgo_bajo_engagement"] = Num(Entero(0))
          /\ df.rows[i]["riesgo_nuevo_inactivo"] = Num(Entero(0))
          /\ df.rows[i]["nivel_riesgo"] = Cat("Alto")

----------------------------------------------------------------------------
(* The feature engine on the tables the cleaned-layer pipeline hands to it *)

\* A raw row of a customer: signup and last purchase (day numbers), spend,
\* shipments and label.
FilaCliente(signup, purchase, spend, shipments, label) ==
    RawRow(Str("C1"), Str("Ana"), Str("555"), signup, purchase, Ent(spend),
           Ent(shipments), Ent(label))

\* Customers at and around the bin edges: purchases 0, 30, 90, 100, 180 and
\* 300 days before day 1000, spends 0, 500 and 1500, shipments 0, 10, 30 and
\* 100, a negative shipment count, accounts of 100, 180 and 1000 days, a
\* purchase dated before the signup, and a missing purchase date.
FilasFeatures ==
    {FilaCliente(DateStr(0, "iso"), DateStr(1000, "iso"), 0, 0, 0),
     FilaCliente(DateStr(0, "iso"), DateStr(900, "iso"), 500, 10, 1),
     FilaCliente(DateStr(0, "iso"), DateStr(970, "iso"), 1500, 30, 0),
     FilaCliente(DateStr(820, "iso"), DateStr(910, "iso"), 100, -5, 1),
     FilaCliente(DateStr(700, "iso"), DateStr(820, "iso"), 2000, 100, 1),
     FilaCliente(DateStr(0, "iso"), DateStr(700, "iso"), 100, 10, 0),
     FilaCliente(DateStr(850, "iso"), DateStr(900, "iso"), 100, 10, 1),
     FilaCliente(DateStr(900, "iso"), DateStr(700, "iso"), 0, 0, 1),
     FilaCliente(DateStr(0, "iso"), Str(""), 100, 10, 0)}

InitFeatures == InitWith(KeyedFiles({"none"}, FilasFeatures))

\* The silver stage, then pasos 1 and 2 of the gold stage.
NextFeatures == NextSilver \/ CargarSilver \/ GenerarFeatures

SpecFeatures == InitFeatures /\ [][NextFeatures]_vars

\* C14: for every table the cleaned-layer pipeline hands to the feature
\* engine, every record's engagement_score is defined and lies in [0, 100].
C14_EngagementRange ==
    pc = "features" =>
        \A i \in 1..Len(df.rows) :
            /\ ~IsNA(df.rows[i]["engagement_score"])
            /\ RLeq(Entero(0), df.rows[i]["engagement_score"].v)
            /\ RLeq(df.rows[i]["engagement_score"].v, Entero(100))

----------------------------------------------------------------------------
(* The engagement score, recomputed from the batch maxima *)

\* The whole numbers of column c that are present.
Presentes(t, c) ==
    {t.rows[i][c].v[1] : i \in {j \in 1..Len(t.rows) : ~IsNA(t.rows[j][c])}}

\* The largest of a non-empty set of integers.
Maximo(S) == CHOOSE m \in S : \A x \in S : x <= m

\* Row r has whole recency, shipments and spend, and the three maxima R, S
\* and G of the batch are positive.
BienDefinido(t, r) ==
    /\ \A c \in {"recencia_dias", "total_shipments", "monthly_spend"} :
          /\ ~IsNA(r[c]) /\ r[c].v[2] = 1
          /\ \A x \in 1..Len(t.rows) : ~IsNA(t.rows[x][c]) => t.rows[x][c].v[2] = 1
          /\ Maximo(Presentes(t, c)) > 0

\* The score of row r is 100 x (0.4 x (1 - r/R) + 0.3 x s/S + 0.3 x g/G), as an
\* exact fraction.
EsPuntaje(t, r) ==
    LET R == Entero(Maximo(Presentes(t, "recencia_dias")))
        S == Entero(Maximo(Presentes(t, "total_shipments")))
        G == Entero(Maximo(Presentes(t, "monthly_spend")))
    IN /\ ~IsNA(r["engagement_score"])
       /\ r["engagement_score"].v =
              RMul(Entero(100),
                   RAdd(RMul(Rat(4, 10),
                             RSub(Entero(1), RDiv(r["recencia_dias"].v, R))),
                        RAdd(RMul(Rat(3, 10), RDiv(r["total_shipments"].v, S)),
                             RMul(Rat(3, 10), RDiv(r["monthly_spend"].v, G)))))

\* The record of the scenario: recency 0 in a batch of maximum recency 100,
\* no shipments and no spend, among peers with shipments and spend.
EscenarioCuarenta(t, r) ==
    /\ BienDefinido(t, r)
    /\ r["recencia_dias"] = Num(Entero(0))
    /\ Maximo(Presentes(t, "recencia_dias")) = 100
    /\ r["total_shipments"] = Num(Entero(0))
    /\ r["monthly_spend"] = Num(Entero(0))

\* C15: engagement_score = 100 x (0.4 x (1 - recency / max recency)
\* + 0.3 x shipments / max shipments + 0.3 x spend / max spend), the maxima
\* taken over the batch; the record with recency 0 of 100, zero shipments
\* and zero spend among peers with positive ones scores exactly 40; and the
\* three normalization columns are not in the result.
C15_EngagementFormula ==
    pc = "features" =>
        /\ \A c \in {"recencia_norm", "frecuencia_norm", "gasto_norm"} : ~HasCol(df, c)
        /\ \A i \in 1..Len(df.rows) :
              /\ BienDefinido(df, df.rows[i]) => EsPuntaje(df, df.rows[i])
              /\ EscenarioCuarenta(df, df.rows[i]) =>
                     df.rows[i]["engagement_score"] = Num(Entero(40))

\* The scenario is reached, next to a peer whose score is not a multiple of
\* ten.
C15_Witness ==
    /\ pc = "features"
    /\ \E i \in 1..Len(df.rows) : EscenarioCuarenta(df, df.rows[i])
    /\ \E i \in 1..Len(df.rows) :
          /\ BienDefinido(df, df.rows[i])
          /\ df.rows[i]["engagement_score"].v[1] % 10 # 0

----------------------------------------------------------------------------
(* The two loaders of the raw file *)

\* Raw files of one, two and three columns in the four quotings, with keys
\* and values that are texts, numbers, NA tokens and empty fields.
FilasCarga(cols) ==
    {r \in [Range(cols) -> {Str("C1"), Str("NULL"), Ent(100), Str("")}] :
        /\ r[cols[1]] \in {Str("C1"), Str("NULL")}
        /\ \A j \in 2..Len(cols) : r[cols[j]] \in {Ent(100), Str("")}}

ArchivosDe(q, cols) ==
    {[quoting |-> q, cols |-> cols, rows |-> rows] : rows \in SeqsUpTo(FilasCarga(cols))}

ArchivosCarga ==
    UNION {ArchivosDe(q, cols) :
              q \in {"none", "field", "line"},
              cols \in {<<"id">>, <<"id", "spend">>, <<"id", "full_name", "spend">>}}
    \cup UNION {ArchivosDe("escaped", cols) :
                   cols \in {<<"id", "spend">>, <<"id", "full_name", "spend">>}}

InitCarga ==
    /\ pc = "main"
    /\ bronze \in ArchivosCarga
    /\ df = NoTable
    /\ silver = NoFile
    /\ gold = NoFile
    /\ previo = NoFile
    /\ corrida = 1

\* The load of cargar_bronze.py, then the inline load of the silver stage.
NextCarga == CargarDatosBronze \/ CargarBronze

SpecCarga == InitCarga /\ [][NextCarga]_vars

\* The first parse has one column and the parse with quoting=3 has more.
RequiereReparacion(file) ==
    Len(ReadCsvStr(file).cols) = 1 /\ Len(ReadCsvNoQuote(file).cols) > 1

\* Table t is the parse of the file with quoting=3 and every quote character
\* removed: the column names of the file, and in every field the text that
\* stood between the quote characters, or what read_csv makes of a field
\* that had none.
EsReparseSinComillas(t, file) ==
    /\ t.cols = file.cols
    /\ Len(t.rows) = Len(file.rows)
    /\ \A i \in 1..Len(file.rows) : \A j \in 1..Len(file.cols) :
          t.rows[i][file.cols[j]] =
              IF PreQ(file, j) + PostQ(file, j) > 0
              THEN file.rows[i][file.cols[j]]
              ELSE ReadCell(file.rows[i][file.cols[j]])

\* C16: the loader applies the quoting repair exactly when the first parse
\* has one column and the re-parse with quotes as literal content has more
\* than one; the table is then the re-parse with every quote character
\* removed from headers and values (header "id","spend" / row "C1","100"
\* gives columns id, spend with values C1, 100); in every other case the
\* first parse is returned unchanged. The loader of cargar_bronze and the
\* inline load of the silver stage return the same table for the same file.
C16_QuotingRepair ==
    pc \in {"inicio", "cargado"} =>
        /\ df = cargar_bronze(bronze)
        /\ df = cargar_datos_bronze(bronze)
        /\ RequiereReparacion(bronze) =>
               /\ EsReparseSinComillas(df, bronze)
               /\ df # ReadCsvStr(bronze)
        /\ ~RequiereReparacion(bronze) => df = ReadCsvStr(bronze)
        /\ (/\ bronze.quoting = "escaped"
            /\ bronze.cols = <<"id", "spend">>
            /\ bronze.rows = <<[id |-> Str("C1"), spend |-> Ent(100)]>>) =>
               /\ df.cols = <<"id", "spend">>
               /\ df.rows = <<[id |-> Str("C1"), spend |-> Ent(100)]>>

\* The silver stage has loaded the file of the scenario, a one-column table
\* at first parse, as two columns without quotes.
C16_Witness ==
    /\ pc = "cargado"
    /\ bronze.quoting = "escaped"
    /\ Len(ReadCsvStr(bronze).cols) = 1
    /\ bronze.rows = <<[id |-> Str("C1"), spend |-> Ent(100)]>>
    /\ df.cols = <<"id", "spend">>
    /\ df.rows[1]["id"] = Str("C1")

----------------------------------------------------------------------------
(* The median-fill strategy *)

\* The rows of t that have a value in column c.
ConValor(t, c) == {i \in 1..Len(t.rows) : ~IsNA(t.rows[i][c])}

\* x is the k-th smallest of the values of column c.
Kesimo(x, k, t, c) ==
    /\ Cardinality({j \in ConValor(t, c) : RLess(t.rows[j][c].v, x)}) <= k - 1
    /\ Cardinality({j \in ConValor(t, c) : RLeq(t.rows[j][c].v, x)}) >= k

\* m is the median of the values of column c: the middle one, or half the
\* sum of the two middle ones.
EsMediana(m, t, c) ==
    LET n == Cardinality(ConValor(t, c))
    IN IF n % 2 = 1
       THEN Kesimo(m, (n + 1) \div 2, t, c) /\ \E i \in ConValor(t, c) : t.rows[i][c].v = m
       ELSE \E i, k \in ConValor(t, c) :
                /\ Kesimo(t.rows[i][c].v, n \div 2, t, c)
                /\ Kesimo(t.rows[k][c].v, n \div 2 + 1, t, c)
                /\ RAdd(m, m) = RAdd(t.rows[i][c].v, t.rows[k][c].v)

\* The value nuevo stands after the fill where row b of table t stood: the
\* old value when there was one, the median of the column when there was
\* none (nothing, for a column without any value).
RellenoMediana(t, b, nuevo, c) ==
    IF ~IsNA(t.rows[b][c]) THEN nuevo = t.rows[b][c]
    ELSE IF ConValor(t, c) = {} THEN IsNA(nuevo)
    ELSE ~IsNA(nuevo) /\ EsMediana(nuevo.v, t, c)

\* C17: under the median-fill strategy every missing value of the column is
\* replaced by the median of the column's non-missing values and every
\* non-missing value is left unchanged; monthly_spend [100, missing, 300]
\* becomes [100, 200, 300].
C17_MedianFill ==
    [][(pc = "corregido" /\ pc' = "sin_nulos") =>
          /\ \A a \in 1..Len(df'.rows) :
                \E b \in 1..Len(df.rows) :
                    /\ df.rows[b]["customer_id"] = df'.rows[a]["customer_id"]
                    /\ \A c \in {"monthly_spend", "total_shipments"} :
                          RellenoMediana(df, b, df'.rows[a][c], c)
          /\ (/\ Column(df, "monthly_spend")
                     = <<Num(Entero(100)), NA, Num(Entero(300))>>
              /\ Len(df'.rows) = 3) =>
                 Column(df', "monthly_spend")
                     = <<Num(Entero(100)), Num(Entero(200)), Num(Entero(300))>>]_vars

\* The column read from the raw fields 100, empty, 300 stands filled as
\* 100, 200, 300.
C17_Witness ==
    /\ pc = "sin_nulos"
    /\ Len(bronze.rows) = 3
    /\ bronze.rows[1]["monthly_spend"] = Ent(100)
    /\ bronze.rows[2]["monthly_spend"] = Str("")
    /\ bronze.rows[3]["monthly_spend"] = Ent(300)
    /\ Column(df, "monthly_spend")
           = <<Num(Entero(100)), Num(Entero(200)), Num(Entero(300))>>

----------------------------------------------------------------------------
(* The binned features *)

\* The seven binned features: the column that is binned, the column of the
\* label, the finite bin edges and the labels of the bins they delimit.
FeaturesPorBins ==
    {[valor |-> "recencia_dias", categoria |-> "categoria_recencia",
      bordes |-> <<0, 30, 90, 180>>,
      etiquetas |-> <<"Muy_Reciente", "Reciente", "Inactivo", "Muy_Inactivo">>],
     [valor |-> "antiguedad_dias", categoria |-> "categoria_antiguedad",
      bordes |-> <<0, 180, 365, 730>>,
      etiquetas |-> <<"Nuevo", "Establecido", "Veterano", "Antiguo">>],
     [valor |-> "monthly_spend", categoria |-> "segmento_gasto",
      bordes |-> <<0, 500, 1500, 5000>>,
      etiquetas |-> <<"Bajo", "Medio", "Alto", "Premium">>],
     [valor |-> "total_shipments", categoria |-> "segmento_frecuencia",
      bordes |-> <<0, 10, 30, 100>>,
      etiquetas |-> <<"Ocasional", "Regular", "Frecuente", "VIP">>],
     [valor |-> "engagement_score", categoria |-> "nivel_engagement",
      bordes |-> <<0, 25, 50, 75, 100>>,
      etiquetas |-> <<"Bajo", "Medio", "Alto", "Muy_Alto">>],
     [valor |-> "gasto_por_envio", categoria |-> "categoria_ticket",
      bordes |-> <<0, 50, 100, 200>>,
      etiquetas |-> <<"Bajo", "Medio", "Alto", "Premium">>],
     [valor |-> "score_riesgo_churn", categoria |-> "nivel_riesgo",
      bordes |-> <<-1, 0, 2, 4, 6>>,
      etiquetas |-> <<"Bajo", "Medio", "Alto", "Crítico">>]}

\* Row r has the value of edge j of feature f.
EnBorde(r, f, j) == ~IsNA(r[f.valor]) /\ r[f.valor].v = Entero(f.bordes[j])

SeisFeatures == {f \in FeaturesPorBins : f.bordes[1] = 0}

\* Row r carries one of the four labels of feature f.
Etiquetado(r, f) ==
    \E j \in 1..Len(f.etiquetas) : r[f.categoria] = Cat(f.etiquetas[j])

\* C19: in every table with features, each of recency tier, tenure tier,
\* spend segment, shipment segment, engagement level and ticket-size tier
\* carries one of its four labels whenever the underlying value is not
\* missing, also when that value is 0 (recency of the record with the latest
\* purchase, spend 0, shipments 0, engagement 0).
C19_TiersTotal ==
    pc = "features" =>
        \A f \in SeisFeatures : \A i \in 1..Len(df.rows) :
            ~IsNA(df.rows[i][f.valor]) => Etiquetado(df.rows[i], f)

\* A record with recency 0 whose recency tier is missing.
C19_RecenciaCero ==
    /\ pc = "features"
    /\ \E i \in 1..Len(df.rows) :
          /\ df.rows[i]["recencia_dias"] = Num(Entero(0))
          /\ df.rows[i]["categoria_recencia"] = NA

\* ---------------------------------------------------------------------------
\* Claim C20: the risk score and its category
\* ---------------------------------------------------------------------------

\* The comparisons of the three risk signals; a missing value satisfies none.
MayorQue(c, k) == ~IsNA(c) /\ RLess(Entero(k), c.v)
MenorQue(c, k) == ~IsNA(c) /\ RLess(c.v, Entero(k))

\* 3 x [recency > 180] + 2 x [engagement < 30]
\*   + 1 x [tenure < 180 and recency > 90] for row r.
PuntajeRiesgo(r) ==
    3 * (IF MayorQue(r["recencia_dias"], 180) THEN 1 ELSE 0)
    + 2 * (IF MenorQue(r["engagement_score"], 30) THEN 1 ELSE 0)
    + (IF /\ MenorQue(r["antiguedad_dias"], 180)
          /\ MayorQue(r["recencia_dias"], 90)
       THEN 1 ELSE 0)

CategoriasRiesgo == <<"Bajo", "Medio", "Alto", "Crítico">>

\* Position of the risk category of row r in the order of the categories,
\* 0 when the row has none.
RangoRiesgo(r) ==
    LET js == {j \in 1..Len(CategoriasRiesgo) :
                  r["nivel_riesgo"] = Cat(CategoriasRiesgo[j])}
    IN IF js = {} THEN 0 ELSE CHOOSE j \in js : TRUE

\* C20: in every table with features, score_riesgo_churn of each record is
\* 3 x [recency > 180] + 2 x [engagement_score < 30]
\* + 1 x [tenure < 180 and recency > 90], an integer in 0..6; nivel_riesgo is
\* one of the four risk categories, never missing, and of two records the one
\* with the larger score never has the lower category.
C20_RiskScore ==
    pc = "features" =>
        /\ \A i \in 1..Len(df.rows) :
              /\ df.rows[i]["score_riesgo_churn"]
                     = Num(Entero(PuntajeRiesgo(df.rows[i])))
              /\ PuntajeRiesgo(df.rows[i]) \in 0..6
              /\ RangoRiesgo(df.rows[i]) \in 1..Len(CategoriasRiesgo)
        /\ \A i, j \in 1..Len(df.rows) :
              PuntajeRiesgo(df.rows[i]) <= PuntajeRiesgo(df.rows[j])
                  => RangoRiesgo(df.rows[i]) <= RangoRiesgo(df.rows[j])

\* A table with features holding a record of score 0 and a record of score 6
\* whose categories are the lowest and the highest.
C20_Witness ==
    /\ pc = "features"
    /\ \E i, j \in 1..Len(df.rows) :
          /\ df.rows[i]["score_riesgo_churn"] = Num(Entero(0))
          /\ df.rows[i]["nivel_riesgo"] = Cat("Bajo")
          /\ df.rows[j]["score_riesgo_churn"] = Num(Entero(6))
          /\ df.rows[j]["nivel_riesgo"] = Cat("Crítico")

\* ---------------------------------------------------------------------------
\* Claim C21: the stage functions and the table they are given
\* ---------------------------------------------------------------------------
\* A DataFrame is an object and the stage functions receive a reference to
\* it.  `df[columna] = ...` and `df.loc[mask, columna] = ...` write into the
\* object the caller passed; `df = df[...]`, `df = df.sort_values(...)`,
\* `df = df.dropna(...)` and `df = df.drop(...)` bind the local name to a new
\* object.  The operators below give the caller's object as it stands after
\* the call.

\* detectar_duplicados: line 64 rebinds df when exact duplicates exist; when
\* none exist and a key repeats, line 74 adds last_purchase_date_temp to the
\* caller's object, and line 80 removes it from the sorted copy only.
ArgumentoTras_detectar_duplicados(df0, columna_id) ==
    LET repetida == \E i, j \in 1..Len(df0.rows) :
                        i # j /\ df0.rows[i][columna_id] = df0.rows[j][columna_id]
    IN IF /\ DropExactDuplicates(df0) = df0
          /\ repetida
          /\ HasCol(df0, "last_purchase_date")
       THEN SetColumn(df0, "last_purchase_date_temp", "datetime64",
                [i \in 1..Len(df0.rows) |->
                    ToDatetime(df0.rows[i]["last_purchase_date"])])
       ELSE df0

\* normalizar_fechas: line 125 assigns the parsed column to the caller's object.
ArgumentoTras_normalizar_fechas(df0, columnas_fecha) ==
    normalizar_fechas(df0, columnas_fecha)

\* detectar_outliers: line 294 adds the flag columns to the caller's object.
ArgumentoTras_detectar_outliers(df0, columnas_numericas) ==
    detectar_outliers(df0, columnas_numericas)

\* corregir_outliers: lines 331, 337 and 343 write through df.loc.
ArgumentoTras_corregir_outliers(df0, columna) == corregir_outliers(df0, columna)

\* manejar_valores_nulos: the fills of lines 195-215 are assigned to the
\* caller's object until line 219 rebinds df to the result of dropna.
RECURSIVE ArgumentoTras_manejar_valores_nulos(_, _)
ArgumentoTras_manejar_valores_nulos(df0, estrategias) ==
    IF Len(estrategias) = 0 THEN df0
    ELSE LET columna == Head(estrategias)[1]
             estrategia == Head(estrategias)[2]
         IN IF /\ estrategia = "eliminar"
               /\ HasCol(df0, columna)
               /\ CountNA(df0, columna) > 0
            THEN df0
            ELSE ArgumentoTras_manejar_valores_nulos(
                     AplicarEstrategia(df0, columna, estrategia),
                     Tail(estrategias))

\* hashear_datos_sensibles: line 109 works on df.copy().
ArgumentoTras_hashear_datos_sensibles(df0) == df0

\* The feature functions assign their new columns to the caller's object.
ArgumentoTras_generar_todas_features(df0) == generar_todas_features(df0)

\* C21: every stage function leaves the table it was given unchanged: after
\* the call the caller's input has the same columns and the same values as
\* before the call.
C21_InputUnchanged ==
    [][/\ (pc = "cargado" /\ pc' = "deduplicado")
           => ArgumentoTras_detectar_duplicados(df, "customer_id") = df
       /\ (pc = "deduplicado" /\ pc' = "fechas")
           => ArgumentoTras_normalizar_fechas(
                  df, <<"signup_date", "last_purchase_date">>) = df
       /\ (pc = "tipos" /\ pc' = "marcado")
           => ArgumentoTras_detectar_outliers(
                  df, <<"monthly_spend", "total_shipments">>) = df
       /\ (pc = "marcado" /\ pc' = "corregido")
           => /\ ArgumentoTras_corregir_outliers(df, "monthly_spend") = df
              /\ ArgumentoTras_corregir_outliers(df, "total_shipments") = df
       /\ (pc = "corregido" /\ pc' = "sin_nulos")
           => ArgumentoTras_manejar_valores_nulos(df, ESTRATEGIA_NULOS) = df
       /\ (pc = "sin_nulos" /\ pc' = "hasheado")
           => ArgumentoTras_hashear_datos_sensibles(df) = df
       /\ (pc = "silver_cargado" /\ pc' = "features")
           => ArgumentoTras_generar_todas_features(df) = df]_vars

\* normalizar_fechas was given a table whose dates were texts and the table
\* it was given holds timestamps after the call.
C21_Witness ==
    /\ pc = "fechas"
    /\ df = ArgumentoTras_normalizar_fechas(
                cargar_bronze(bronze), <<"signup_date", "last_purchase_date">>)
    /\ df # cargar_bronze(bronze)

\* ---------------------------------------------------------------------------
\* Missing values: files whose rows lack a phone, a spend, a shipment count,
\* a purchase date or a label
\* ---------------------------------------------------------------------------

FilasNulos ==
    {FilaTipica(Str("Ana"), Str("555"), DateStr(100, "iso"), Ent(100), Ent(10), Ent(1)),
     FilaTipica(Str("Ana"), Str("555"), DateStr(200, "iso"), Ent(300), Ent(20), Ent(0)),
     FilaTipica(Str("Ana"), Str(""), DateStr(100, "iso"), Str(""), Ent(10), Ent(1)),
     FilaTipica(Str("Ana"), Str("555"), Str(""), Ent(100), Str(""), Ent(1)),
     FilaTipica(Str(""), Str("555"), DateStr(300, "iso"), Ent(500), Ent(30), Str("")),
     FilaTipica(Str("Ana"), Str("NULL"), Str("sin fecha"), Ent(100), Ent(10), Ent(0)),
     FilaTipica(Str("Ana"), Str(""), Str(""), Str(""), Str(""), Str("")),
     FilaTipica(Str("N/A"), Str("   "), DateStr(100, "iso"), Ent(100), Ent(10), Ent(1)),
     [FilaTipica(Str("Ana"), Str("NULL"), DateStr(200, "iso"), Ent(300), Ent(20), Ent(0))
         EXCEPT !["email"] = Str(""), !["home_address"] = Str("N/A")],
     RawRow(Str("C1"), Str("Ana"), Str("555"), Str("sin fecha"), DateStr(200, "iso"),
            Ent(300), Ent(20), Ent(1))}

InitNulos == InitWith(KeyedFiles({"none"}, FilasNulos))

SpecNulos == InitNulos /\ [][NextSilver]_vars

\* ---------------------------------------------------------------------------
\* Claim C22: the order of the per-field strategies
\* ---------------------------------------------------------------------------

\* ESTRATEGIA_NULOS with the strategy of churn_label moved to position k.
EliminarEnPosicion(k) ==
    LET otras == SelectSeq(ESTRATEGIA_NULOS, LAMBDA e : e[2] # "eliminar")
        eliminar == SelectSeq(ESTRATEGIA_NULOS, LAMBDA e : e[2] = "eliminar")
    IN SubSeq(otras, 1, k - 1) \o eliminar \o SubSeq(otras, k, Len(otras))

\* C22: the table manejar_valores_nulos returns does not depend on the order
\* of the strategies: removing the rows without churn_label before, between
\* or after the fills of monthly_spend, total_shipments and
\* last_purchase_date gives the same rows with the same values.
C22_OrderIndependent ==
    [][(pc = "corregido" /\ pc' = "sin_nulos") =>
          \A k \in 1..Len(ESTRATEGIA_NULOS) :
              manejar_valores_nulos(df, EliminarEnPosicion(k)) = df']_vars

\* The policy engine removed a row without churn_label and filled a missing
\* monthly_spend in a row it kept.
C22_Witness ==
    /\ pc = "sin_nulos"
    /\ LET antes == corregir_outliers(
                        convertir_tipos(
                            normalizar_fechas(
                                detectar_duplicados(cargar_bronze(bronze), "customer_id"),
                                <<"signup_date", "last_purchase_date">>)),
                        "monthly_spend")
       IN /\ \E i \in 1..Len(antes.rows) :
                /\ IsNA(antes.rows[i]["churn_label"])
                /\ ~IsNA(antes.rows[i]["monthly_spend"])
          /\ \E i \in 1..Len(antes.rows) :
                /\ ~IsNA(antes.rows[i]["churn_label"])
                /\ IsNA(antes.rows[i]["monthly_spend"])
          /\ Len(df.rows) < Len(antes.rows)

\* ---------------------------------------------------------------------------
\* Claim C23: cap correction and the outlier flags
\* ---------------------------------------------------------------------------

EsColumnaOutlier(c) == c \in {"monthly_spend_is_outlier", "total_shipments_is_outlier"}

\* The flag detection gave row i of table t for column columna.
Marcado(t, i, columna) == t.rows[i][columna \o "_is_outlier"] = Bool(TRUE)

\* The value the cap policy prescribes for a flagged value c of columna.
ValorCorregido(c, columna) ==
    IF columna = "monthly_spend" /\ RLess(c.v, Entero(0)) THEN Num(Entero(0))
    ELSE IF columna = "monthly_spend" THEN Num(Entero(UMBRAL_GASTO_MAXIMO))
    ELSE Num(Entero(UMBRAL_ENVIOS_MAXIMO))

\* The step from the flagged table to the corrected table.
CorreccionPorCap ==
    (pc = "marcado" /\ pc' = "corregido") =>
        /\ df'.cols = SelectSeq(df.cols, LAMBDA c : ~EsColumnaOutlier(c))
        /\ Len(df'.rows) = Len(df.rows)
        /\ \A i \in 1..Len(df.rows) :
              /\ \A columna \in {"monthly_spend", "total_shipments"} :
                    /\ (df'.rows[i][columna] # df.rows[i][columna])
                           <=> Marcado(df, i, columna)
                    /\ Marcado(df, i, columna) =>
                           df'.rows[i][columna]
                               = ValorCorregido(df.rows[i][columna], columna)
              /\ \A x \in Range(df'.cols) \ {"monthly_spend", "total_shipments"} :
                    df'.rows[i][x] = df.rows[i][x]

\* No flag column from the corrected table on, nor in the silver file.
SinColumnasOutlier ==
    /\ pc \in {"corregido", "sin_nulos", "hasheado", "silver"}
           => \A c \in Range(df.cols) : ~EsColumnaOutlier(c)
    /\ \A c \in Range(silver.cols) : ~EsColumnaOutlier(c)

\* C23: cap correction changes a value if and only if threshold detection
\* flagged it: a negative monthly_spend becomes 0, a monthly_spend above the
\* maximum becomes the maximum, a total_shipments above the maximum becomes
\* the maximum; unflagged values, the other columns and the rows are
\* unchanged, and the cleaned table has no *_is_outlier column.
C23_CapFrame == [](SinColumnasOutlier) /\ [][CorreccionPorCap]_vars

\* A corrected table that came from a negative spend, a spend above the
\* maximum and a shipment count above the maximum.
C23_Witness ==
    /\ pc = "corregido"
    /\ LET antes == convertir_tipos(cargar_bronze(bronze))
       IN /\ Len(antes.rows) = Len(df.rows)
          /\ \E i \in 1..Len(df.rows) :
                /\ antes.rows[i]["monthly_spend"] = Num(Entero(-50))
                /\ df.rows[i]["monthly_spend"] = Num(Entero(0))
          /\ \E i \in 1..Len(df.rows) :
                /\ antes.rows[i]["monthly_spend"] = Num(Entero(20000))
                /\ df.rows[i]["monthly_spend"] = Num(Entero(UMBRAL_GASTO_MAXIMO))
          /\ \E i \in 1..Len(df.rows) :
                /\ antes.rows[i]["total_shipments"] = Num(Entero(600))
                /\ df.rows[i]["total_shipments"] = Num(Entero(UMBRAL_ENVIOS_MAXIMO))

\* ---------------------------------------------------------------------------
\* Claim C24: forward fill of last_purchase_date and the row order it uses
\* ---------------------------------------------------------------------------

\* The rows above row i of table t whose last_purchase_date is present.
FechasArriba(t, i) ==
    {j \in 1..(i - 1) : ~IsNA(t.rows[j]["last_purchase_date"])}

\* The date row i of table t has after the forward fill.
FechaHeredada(t, i) ==
    IF ~IsNA(t.rows[i]["last_purchase_date"]) THEN t.rows[i]["last_purchase_date"]
    ELSE IF FechasArriba(t, i) = {} THEN NA
    ELSE t.rows[CHOOSE j \in FechasArriba(t, i) :
                    \A m \in FechasArriba(t, i) : m <= j]["last_purchase_date"]

\* The rows of table t that carry a churn_label, in order: the rows the
\* policy engine keeps.
ConEtiqueta(t) ==
    SelectSeq(Indices(Len(t.rows)), LAMBDA i : ~IsNA(t.rows[i]["churn_label"]))

\* The step of the policy engine, for the date column.
RellenoHaciaAdelante ==
    (pc = "corregido" /\ pc' = "sin_nulos") =>
        /\ Len(df'.rows) = Len(ConEtiqueta(df))
        /\ \A k \in 1..Len(df'.rows) :
              df'.rows[k]["last_purchase_date"] = FechaHeredada(df, ConEtiqueta(df)[k])

\* Key a comes before key b in the sorted order, missing keys last.
ClaveAntes(a, b) == ~IsNA(a) /\ (IsNA(b) \/ TextRank(a) < TextRank(b))

\* The row order after deduplication: the input order when no key repeats
\* among the distinct rows, the order of the keys when one does.
OrdenTrasDuplicados ==
    pc = "deduplicado" =>
        LET distintas == DropExactDuplicates(cargar_bronze(bronze))
            repetida == \E i, j \in 1..Len(distintas.rows) :
                            /\ i # j
                            /\ distintas.rows[i]["customer_id"]
                                   = distintas.rows[j]["customer_id"]
        IN IF repetida
           THEN \A i, j \in 1..Len(df.rows) :
                    i < j => ClaveAntes(df.rows[i]["customer_id"],
                                        df.rows[j]["customer_id"])
           ELSE df.rows = distintas.rows

\* C24: under forward fill each missing last_purchase_date gets the date of
\* the nearest row above it, in the current row order, whose date is present;
\* present dates are unchanged and a missing date with no present date above
\* it stays missing.  The current row order is the input order when
\* deduplication found no repeated key and the order of the keys when it
\* resolved repeated keys.
C24_ForwardFill == [](OrdenTrasDuplicados) /\ [][RellenoHaciaAdelante]_vars

\* Deduplication sorted the rows by key, which moved a row without date below
\* a row with one, and the fill gave it that date; in another row the date
\* stayed missing for want of a date above it.
C24_Witness ==
    /\ pc = "sin_nulos"
    /\ Len(df.rows) = 2
    /\ Len(bronze.rows) = 3
    /\ bronze.rows[1]["last_purchase_date"] = Str("")
    /\ bronze.rows[1]["customer_id"] # Str("C1")
    /\ bronze.rows[2]["customer_id"] = Str("C1")
    /\ bronze.rows[3]["customer_id"] = Str("C1")
    /\ df.rows[1]["customer_id"] = Str("C1")
    /\ ~IsNA(df.rows[2]["last_purchase_date"])
    /\ df.rows[2]["last_purchase_date"] = df.rows[1]["last_purchase_date"]

\* ---------------------------------------------------------------------------
\* Claim C25: which rows and which fields the policy engine touches
\* ---------------------------------------------------------------------------

\* Column x of table t holds a value in every row.
SinFaltantes(t, x) == \A i \in 1..Len(t.rows) : ~IsNA(t.rows[i][x])

\* The step of the policy engine: the rows kept are those with a churn_label,
\* in order, and a column without missing values keeps its values and dtype.
SoloEliminaSinEtiqueta ==
    (pc = "corregido" /\ pc' = "sin_nulos") =>
        /\ df'.cols = df.cols
        /\ Len(df'.rows) = Len(ConEtiqueta(df))
        /\ \A k \in 1..Len(df'.rows) : \A x \in Range(df.cols) :
              SinFaltantes(df, x) =>
                  /\ df'.rows[k][x] = df.rows[ConEtiqueta(df)[k]][x]
                  /\ df'.dtype[x] = df.dtype[x]

\* C25: with the configured strategies manejar_valores_nulos removes a row if
\* and only if its churn_label is missing; a row with a missing value in any
\* other field is kept, and a field without missing values is left unchanged.
C25_RemovalOnlyLabel == [][SoloEliminaSinEtiqueta]_vars

\* The policy engine removed a row without churn_label and kept a row whose
\* phone, spend, shipments and date were missing.
C25_Witness ==
    /\ pc = "sin_nulos"
    /\ Len(bronze.rows) = 3
    /\ Len(df.rows) = 2
    /\ bronze.rows[1]["churn_label"] = Str("")
    /\ bronze.rows[2]["phone"] = Str("")
    /\ bronze.rows[2]["monthly_spend"] = Str("")
    /\ bronze.rows[3]["last_purchase_date"] = Str("")
    /\ bronze.rows[3]["total_shipments"] = Str("")
    /\ df.rows[1]["customer_id"] = Str("C2")
    /\ df.rows[2]["customer_id"] = Str("C3")

\* ---------------------------------------------------------------------------
\* Claim C26: the silver table and the precondition of the feature engine
\* ---------------------------------------------------------------------------

\* C26: every silver table the cleaned-layer pipeline persists has, in every
\* row, a signup_date and a last_purchase_date that are not missing and a
\* monthly_spend and a total_shipments that are numbers and not missing.
C26_SilverPrecondition ==
    pc = "silver" =>
        \A i \in 1..Len(df.rows) :
            /\ ~IsNA(df.rows[i]["signup_date"])
            /\ ~IsNA(df.rows[i]["last_purchase_date"])
            /\ df.rows[i]["monthly_spend"].k = "num"
            /\ df.rows[i]["total_shipments"].k = "num"

\* A persisted silver table whose first row has no last_purchase_date.
C26_PrimeraSinFecha ==
    /\ pc = "silver"
    /\ Len(df.rows) > 0
    /\ IsNA(df.rows[1]["last_purchase_date"])
    /\ silver.rows = to_csv(df).rows

\* ---------------------------------------------------------------------------
\* Claim C27: the collision warning of hashear_columna
\* ---------------------------------------------------------------------------

\* Series.nunique(): the number of distinct values, missing values left out.
Nunique(serie) == Cardinality({serie[i] : i \in {j \in DOMAIN serie : ~IsNA(serie[j])}})

\* Lines 70-81: the 'Posible colisión' warning is logged when the two counts
\* of unique values differ.
AdvierteColision(serie, salt) ==
    LET valores_unicos_original == Nunique(serie)
        valores_unicos_hash == Nunique(hashear_columna(serie, salt))
    IN valores_unicos_original # valores_unicos_hash

\* C27: hashear_columna logs the possible-collision warning exactly when the
\* distinct hash values are fewer than the distinct original values; a column
\* that merely holds missing or blank values, its distinct originals hashed
\* to distinct values, gives no warning.
C27_CollisionWarning ==
    pc = "serie_hasheada" =>
        (AdvierteColision(Column(df, "valor"), SALT_HASHING)
            <=> Nunique(Column(df, "valor_hash")) < Nunique(Column(df, "valor")))

\* A hashed series of a missing value and a name: two distinct hash values
\* for one distinct original, and the warning is logged.
C27_AvisoPorFaltante ==
    /\ pc = "serie_hasheada"
    /\ Len(df.rows) = 2
    /\ df.rows[1]["valor"] = NA
    /\ df.rows[2]["valor"] = Str("Ana")
    /\ df.rows[1]["valor_hash"] # df.rows[2]["valor_hash"]
    /\ AdvierteColision(Column(df, "valor"), SALT_HASHING)

\* ---------------------------------------------------------------------------
\* Claim C28: consistency of the derived flags
\* ---------------------------------------------------------------------------

Uno(r, columna) == r[columna] = Num(Entero(1))

Cero(r, columna) == r[columna] = Num(Entero(0))

\* The score of row r is at least k.
PuntajeDesde(r, k) == RLeq(Entero(k), r["score_riesgo_churn"].v)

\* The relations between the flags that do not involve the score.
BanderasCoherentes(r) ==
    /\ Uno(r, "riesgo_inactividad") => Cero(r, "cliente_activo_reciente")
    /\ Uno(r, "riesgo_nuevo_inactivo") => Cero(r, "cliente_activo_reciente")
    /\ Uno(r, "riesgo_inactividad") <=> r["categoria_recencia"] = Cat("Muy_Inactivo")

\* C28, as stated: in every table generar_todas_features returns,
\* riesgo_inactividad = 1 implies cliente_activo_reciente = 0,
\* riesgo_nuevo_inactivo = 1 implies cliente_activo_reciente = 0,
\* riesgo_inactividad = 1 holds exactly for the records of the last recency
\* tier, and score_riesgo_churn >= 3 holds exactly when riesgo_inactividad = 1.
C28_FlagsConsistent ==
    pc = "features" =>
        \A i \in 1..Len(df.rows) :
            /\ BanderasCoherentes(df.rows[i])
            /\ PuntajeDesde(df.rows[i], 3) <=> Uno(df.rows[i], "riesgo_inactividad")

\* C28, amended: the three relations between the flags hold;
\* riesgo_inactividad = 1 implies score_riesgo_churn >= 3 and
\* score_riesgo_churn >= 4 implies riesgo_inactividad = 1 (the score 3 is
\* also that of low engagement together with a new inactive account).
C28_FlagsConsistentAmended ==
    pc = "features" =>
        \A i \in 1..Len(df.rows) :
            /\ BanderasCoherentes(df.rows[i])
            /\ Uno(df.rows[i], "riesgo_inactividad") => PuntajeDesde(df.rows[i], 3)
            /\ PuntajeDesde(df.rows[i], 4) => Uno(df.rows[i], "riesgo_inactividad")

\* A record of score 3 that is not inactive: low engagement and a new
\* account without recent activity.
C28_Witness ==
    /\ pc = "features"
    /\ \E i \in 1..Len(df.rows) :
          /\ df.rows[i]["score_riesgo_churn"] = Num(Entero(3))
          /\ Cero(df.rows[i], "riesgo_inactividad")
          /\ Uno(df.rows[i], "riesgo_bajo_engagement")
          /\ Uno(df.rows[i], "riesgo_nuevo_inactivo")
          /\ Cero(df.rows[i], "cliente_activo_reciente")

\* ---------------------------------------------------------------------------
\* Claim C29: the hash of a missing phone and of the other missing PII fields
\* ---------------------------------------------------------------------------

\* The raw row of the customer of row r; the files of InitNulos give every
\* row a key of its own.
FilaCruda(r) ==
    bronze.rows[CHOOSE i \in 1..Len(bronze.rows) :
                    bronze.rows[i]["customer_id"] = r["customer_id"]]

\* The raw field is one of the texts that are read or normalized as missing.
Faltaba(tok) == IsNA(ReadCell(tok))

DigestoMissing == Hash(SALT_HASHING \o "MISSING")

\* In every row a missing phone has the digest of 'MISSING' and a missing
\* full_name, email or home_address the marker 'NULL'.
FaltantesHasheados(r) ==
    /\ Faltaba(FilaCruda(r)["phone"]) => r["phone_hash"] = DigestoMissing
    /\ \A c \in {"full_name", "email", "home_address"} :
          Faltaba(FilaCruda(r)[c]) => r[c \o "_hash"] = Str("NULL")

\* C29, as stated: in the cleaned table phone_hash is never the marker
\* 'NULL'; every row whose phone was missing carries the digest of 'MISSING',
\* and a missing full_name, email or home_address yields 'NULL'.
C29_PhoneHashNeverNull ==
    pc \in {"hasheado", "silver"} =>
        \A i \in 1..Len(df.rows) :
            /\ df.rows[i]["phone_hash"] # Str("NULL")
            /\ FaltantesHasheados(df.rows[i])

\* C29, amended: phone_hash is the marker 'NULL' exactly for a phone that is
\* a text of white space, which is not a missing value and is not filled;
\* every row whose phone was missing carries the digest of 'MISSING', and a
\* missing full_name, email or home_address yields 'NULL'.
C29_PhoneHashAmended ==
    pc \in {"hasheado", "silver"} =>
        \A i \in 1..Len(df.rows) :
            /\ df.rows[i]["phone_hash"] = Str("NULL")
                   <=> FilaCruda(df.rows[i])["phone"].v \in {" ", "   "}
            /\ FaltantesHasheados(df.rows[i])

\* A cleaned table with two rows whose phones were missing, one empty and one
\* the text NULL, a row whose phone was white space, and missing name, email
\* and address.
C29_Witness ==
    /\ pc = "silver"
    /\ \E i, j, k \in 1..Len(df.rows) :
          /\ FilaCruda(df.rows[i])["phone"] = Str("")
          /\ FilaCruda(df.rows[j])["phone"] = Str("NULL")
          /\ FilaCruda(df.rows[j])["email"] = Str("")
          /\ df.rows[i]["phone_hash"] = DigestoMissing
          /\ df.rows[j]["phone_hash"] = DigestoMissing
          /\ df.rows[j]["email_hash"] = Str("NULL")
          /\ df.rows[j]["home_address_hash"] = Str("NULL")
          /\ FilaCruda(df.rows[k])["phone"] = Str("   ")
          /\ df.rows[k]["phone_hash"] = Str("NULL")
          /\ df.rows[k]["full_name_hash"] = Str("NULL")

\* ---------------------------------------------------------------------------
\* Claim C30: the indicator columns of the encoded tiers
\* ---------------------------------------------------------------------------

\* The name of the indicator column of label j of feature f.
Indicador(f, j) == f.categoria \o "_" \o f.etiquetas[j]

\* The indicators of feature f in row r, for the labels after the first.
VectorIndicador(r, f) == [j \in 2..Len(f.etiquetas) |-> r[Indicador(f, j)]]

\* The step of paso 3: what the indicators of the encoded table say about the
\* tiers of the table with features.
IndicadoresFieles ==
    (pc = "features" /\ pc' = "preparado") =>
        \A f \in FeaturesPorBins :
            /\ \A j \in 2..Len(f.etiquetas) : HasCol(df', Indicador(f, j))
            /\ ~HasCol(df', Indicador(f, 1))
            /\ \A i \in 1..Len(df.rows) :
                  LET v == VectorIndicador(df'.rows[i], f)
                  IN /\ Cardinality({j \in DOMAIN v : v[j] = Num(Entero(1))}) <= 1
                     /\ (\A j \in DOMAIN v : v[j] = Num(Entero(0)))
                            => df.rows[i][f.categoria] = Cat(f.etiquetas[1])
            /\ \A i, k \in 1..Len(df.rows) :
                  df.rows[i][f.categoria] # df.rows[k][f.categoria]
                      => VectorIndicador(df'.rows[i], f) # VectorIndicador(df'.rows[k], f)

\* C30: in the gold table each encoded feature of four labels has three
\* indicator columns, at most one of them 1 in a row; a row whose indicators
\* are all 0 has the first label, so two rows of different tier, 'no tier'
\* included, never have the same indicators.
C30_IndicatorsFaithful == [][IndicadoresFieles]_vars

\* An encoded table in which a record without recency tier and a record of
\* the first tier, Muy_Reciente, have the same indicators, all 0.
C30_SinTierComoPrimero ==
    /\ pc = "preparado"
    /\ LET antes == generar_todas_features(cargar_silver(silver))
           f == CHOOSE g \in FeaturesPorBins : g.categoria = "categoria_recencia"
       IN \E i, k \in 1..Len(df.rows) :
             /\ antes.rows[i]["categoria_recencia"] = NA
             /\ antes.rows[k]["categoria_recencia"] = Cat("Muy_Reciente")
             /\ VectorIndicador(df.rows[i], f) = VectorIndicador(df.rows[k], f)

====
